---- MODULE Spec2Model ----
(***************************************************************************)
(* The Symbolizer of symbolizer-for-vex-v5: resolveToSymbol composes a     *)
(* list of code object locators with a list of code object readers, and    *)
(* getWorkingReader caches the first reader whose health probe succeeded.  *)
(*                                                                         *)
(* A request (one call of resolveToSymbol) is two asynchronous tasks: the  *)
(* getWorkingReader promise started on its first line, and the body that   *)
(* walks the locators, awaits that promise and walks the candidates.  A    *)
(* step of the model is what one task runs between two awaits.             *)
(***************************************************************************)
EXTENDS Integers, Sequences, FiniteSets, TLC

\* Bounds of the model.
NumReaders == 2
NumLocators == 2
MaxFound == 2
MaxInFlight == 2
MaxDigits == 7
MaxMTime == 3
MaxPieces == 4
MaxRuns == 2
MaxCalls == 3

Readers == 1..NumReaders
Locators == 1..NumLocators

\* The absent reader (undefined).
NoReader == 0

\* The display names of the readers, in the order activate() configures them.
ReaderNameTable ==
    <<"LLVM", "Homebrew LLVM", "PROS Toolchain", "ARM Embedded Toolchain", "GNU Binutils">>

ReaderName(r) == IF r <= Len(ReaderNameTable) THEN ReaderNameTable[r] ELSE "reader"

\* Mutant: the message names the first reader only.
ReaderNamesFirstOnly == [r \in {x \in Readers : x = 1} |-> ReaderName(r)]

\* this.readers.map((reader) => reader.name), joined into the message.
ReaderNames == [r \in Readers |-> ReaderName(r)]

\* The messages of the three errors resolveToSymbol throws.
MsgNoCodeObjects == "Cannot find any code objects in this project"
MsgNoReaders == "Cannot find any working code object readers; install one of: "
MsgUnresolved == "This address could not be resolved to a line"

VARIABLES req, firstWorkingReader, lastProbe, invocation

vars == <<req, firstWorkingReader, lastProbe, invocation>>

Slots == DOMAIN req

\* invocation holds one call of a reader or of a locator taken on its own:
\* the operation, what its collaborators (the tool, the file system) give it
\* and, once it has run, what it gave back.  NoInvocation: none is followed.
NoInvocation == [op |-> "none"]

-----------------------------------------------------------------------------
\* The values the collaborators hand back.

\* The k-th code object locator j knows of (an opaque Uri).
CodeObject(j, k) == <<j, k>>

\* What findObjectUris of locator j can do: throw, or return n objects.
LocatorOutcomes(j) ==
    {[threw |-> TRUE, found |-> <<>>]} \cup
    {[threw |-> FALSE, found |-> [k \in 1..n |-> CodeObject(j, k)]] : n \in 0..MaxFound}

\* A ResolvedSymbol: sourceLocation is <<>> when absent, <<location>> otherwise.
ResolvedSymbol(c, hasLocation) ==
    [codeObject |-> c,
     symbolName |-> "symbol",
     sourceLocation |-> IF hasLocation THEN <<[uri |-> c, position |-> 0]>> ELSE <<>>]

\* Mutant: the symbols a reader returns name the first code object of the
\* first locator, whatever code object was given.
ReaderOutcomesOtherObject(r, c) ==
    {[threw |-> TRUE, error |-> [reader |-> r, codeObject |-> c], symbol |-> <<>>]} \cup
    {[threw |-> FALSE, error |-> [reader |-> r, codeObject |-> c],
      symbol |-> <<ResolvedSymbol(CodeObject(1, 1), hasLocation)>>] : hasLocation \in BOOLEAN}

\* What resolveToSymbolInObject of a reader can do for code object c: throw an
\* error, or return a symbol of c with or without a source location.
ReaderOutcomes(r, c) ==
    {[threw |-> TRUE, error |-> [reader |-> r, codeObject |-> c], symbol |-> <<>>]} \cup
    {[threw |-> FALSE, error |-> [reader |-> r, codeObject |-> c],
      symbol |-> <<ResolvedSymbol(c, hasLocation)>>] : hasLocation \in BOOLEAN}

\* What isWorking of a reader answers: execFile --version worked, or did not.
ProbeOutcomes == BOOLEAN

-----------------------------------------------------------------------------
\* The outcome of a request.

NoResult == [kind |-> "none", message |-> "", names |-> <<>>, errors |-> <<>>, value |-> <<>>]

Returned(sym) ==
    [kind |-> "ok", message |-> "", names |-> <<>>, errors |-> <<>>, value |-> <<sym>>]

Thrown(msg, names, errors) ==
    [kind |-> "error", message |-> msg, names |-> names, errors |-> errors, value |-> <<>>]

\* A request that has not been made.  pcm and pcr are the positions of the body
\* of resolveToSymbol and of its getWorkingReader promise; li, located, ci,
\* reader, resolved and errors are the body's locals, rdr the reader whose
\* isWorking is awaited, readerRequest the value the promise resolved to.
\* startCache, probes, locCalls and resCalls record what the request saw and
\* which calls it made, in order; returnedBroken records that getWorkingReader
\* returned a reader whose latest completed probe had answered false.
Idle ==
    [pcm |-> "idle", pcr |-> "idle",
     li |-> 0, located |-> <<>>, ci |-> 0,
     rdr |-> NoReader, readerRequest |-> NoReader, reader |-> NoReader,
     resolved |-> <<>>, errors |-> <<>>, result |-> NoResult,
     startCache |-> NoReader, probes |-> <<>>, locCalls |-> <<>>, resCalls |-> <<>>,
     returnedBroken |-> FALSE]

-----------------------------------------------------------------------------
\* getWorkingReader, between its awaits.  Each operator gives the task's next
\* position (pcr, and the reader rdr whose isWorking it awaits), the cache it
\* leaves and, when it returns, the value it returns.

ReaderTask(pcr, rdr, cache, ret) == [pcr |-> pcr, rdr |-> rdr, cache |-> cache, ret |-> ret]

\* Entry: a scan of this.readers with an empty cache, a re-probe of the cached
\* reader otherwise.
GetWorkingReader(cached) ==
    IF cached = NoReader
    THEN IF NumReaders = 0
         THEN ReaderTask("done", NoReader, cached, cached)
         ELSE ReaderTask("scan", 1, cached, NoReader)
    ELSE ReaderTask("recheck", cached, cached, NoReader)

\* Mutant: the scan caches a working reader but does not leave the loop.
ScanStepNoBreak(r, working, cached) ==
    LET cache == IF working THEN r ELSE cached IN
    IF r < NumReaders
    THEN ReaderTask("scan", r + 1, cache, NoReader)
    ELSE ReaderTask("done", NoReader, cache, cache)

\* Mutant: a scan in which no reader worked leaves its last reader in the cache.
ScanStepCachesFailure(r, working, cached) ==
    IF working
    THEN ReaderTask("done", NoReader, r, r)
    ELSE IF r < NumReaders
         THEN ReaderTask("scan", r + 1, cached, NoReader)
         ELSE ReaderTask("done", NoReader, r, NoReader)

\* The loop of the scan, after isWorking of reader r has answered: a working
\* reader is cached and the loop left; after the loop the cache is returned.
ScanStep(r, working, cached) ==
    IF working
    THEN ReaderTask("done", NoReader, r, r)
    ELSE IF r < NumReaders
         THEN ReaderTask("scan", r + 1, cached, NoReader)
         ELSE ReaderTask("done", NoReader, cached, cached)

\* Mutant: the cache is cleared and the list scanned again whatever the cached
\* reader answered.
RecheckStepAlwaysRescans(r, working, cached) == GetWorkingReader(NoReader)

\* Mutant: a cached reader that stopped working is kept and returned.
RecheckStepKeepsStale(r, working, cached) ==
    ReaderTask("done", NoReader, cached, cached)

\* The re-probe of the cached reader has answered: a reader that stopped
\* working clears the cache and getWorkingReader starts over.
RecheckStep(r, working, cached) ==
    IF working
    THEN ReaderTask("done", NoReader, cached, cached)
    ELSE GetWorkingReader(NoReader)

-----------------------------------------------------------------------------
\* resolveToSymbol, between its awaits.

\* Mutant: the locator loop adds what a locator found but does not stop there.
LocatorStepNoBreak(j, o, located) ==
    [located |-> IF ~o.threw THEN located \o o.found ELSE located,
     next |-> IF j < NumLocators THEN j + 1 ELSE 0]

\* The locator loop after locator j has answered with outcome o: next is the
\* locator to call next, 0 when the loop is left.
LocatorStep(j, o, located) ==
    IF ~o.threw /\ Len(o.found) > 0
    THEN [located |-> located \o o.found, next |-> 0]
    ELSE [located |-> located, next |-> IF j < NumLocators THEN j + 1 ELSE 0]

\* Mutant: the check after the locator loop lets an empty list through.
NoCodeObjectsNever(located) == FALSE

\* The check after the locator loop.
NoCodeObjects(located) == Len(located) = 0

\* Mutant: the check after the reader has been awaited lets no reader through.
NoWorkingReaderNever(reader) == FALSE

\* The check after the reader has been awaited.
NoWorkingReader(reader) == reader = NoReader

\* Mutant: every result counts as sub-optimal, so the candidate loop never stops early.
ResultAlwaysSuboptimal(sym) == TRUE

\* const resultIsSuboptimal = resolved.sourceLocation === undefined
ResultIsSuboptimal(sym) == sym.sourceLocation = <<>>

\* Mutant: the loop is left at the first success, with or without a location.
ResolveStepFirstSuccess(k, o, located, resolved, errors) ==
    LET following == IF k < Len(located) THEN k + 1 ELSE 0 IN
    IF o.threw
    THEN [resolved |-> resolved, errors |-> Append(errors, o.error), next |-> following]
    ELSE [resolved |-> o.symbol, errors |-> errors, next |-> 0]

\* Mutant: a failing candidate overwrites the list of errors instead of adding to it.
ResolveStepOverwritesErrors(k, o, located, resolved, errors) ==
    LET following == IF k < Len(located) THEN k + 1 ELSE 0 IN
    IF o.threw
    THEN [resolved |-> resolved, errors |-> <<o.error>>, next |-> following]
    ELSE [resolved |-> o.symbol, errors |-> errors,
          next |-> IF o.symbol[1].sourceLocation = <<>> THEN following ELSE 0]

\* Mutant: a failing candidate forgets the result an earlier candidate gave.
ResolveStepForgets(k, o, located, resolved, errors) ==
    LET following == IF k < Len(located) THEN k + 1 ELSE 0 IN
    IF o.threw
    THEN [resolved |-> <<>>, errors |-> Append(errors, o.error), next |-> following]
    ELSE [resolved |-> o.symbol, errors |-> errors,
          next |-> IF o.symbol[1].sourceLocation = <<>> THEN following ELSE 0]

\* Mutant: the result of the first candidate that succeeded is kept when a
\* later one succeeds.
ResolveStepKeepsFirst(k, o, located, resolved, errors) ==
    LET following == IF k < Len(located) THEN k + 1 ELSE 0 IN
    IF o.threw
    THEN [resolved |-> resolved, errors |-> Append(errors, o.error), next |-> following]
    ELSE [resolved |-> IF resolved = <<>> THEN o.symbol ELSE resolved, errors |-> errors,
          next |-> IF o.symbol[1].sourceLocation = <<>> THEN following ELSE 0]

\* Mutant: candidate k is resolved with the k-th reader after the awaited one.
CandidateReaderRotates(reader, k) == ((reader + k - 2) % NumReaders) + 1

\* reader.resolveToSymbolInObject(address, codeObject): every candidate is
\* resolved with the reader that was awaited before the loop.
CandidateReader(reader, k) == reader

\* Mutant: every turn of the loop takes the first candidate again.
CandidateAlwaysFirst(located, k) == located[1]

\* Mutant: the candidates are taken from the end of the list.
CandidateFromEnd(located, k) == located[Len(located) + 1 - k]

\* for (const codeObject of locatedCodeObjects): the k-th candidate of the loop.
Candidate(located, k) == located[k]

\* The candidate loop after the reader has answered for candidate k with
\* outcome o: next is the candidate to resolve next, 0 when the loop is left.
ResolveStep(k, o, located, resolved, errors) ==
    LET following == IF k < Len(located) THEN k + 1 ELSE 0 IN
    IF o.threw
    THEN [resolved |-> resolved, errors |-> Append(errors, o.error), next |-> following]
    ELSE [resolved |-> o.symbol, errors |-> errors,
          next |-> IF ResultIsSuboptimal(o.symbol[1]) THEN following ELSE 0]

\* What resolveToSymbol does after the candidate loop.
AfterCandidates(resolved, errors) ==
    IF resolved = <<>>
    THEN Thrown(MsgUnresolved, <<>>, errors)
    ELSE Returned(resolved[1])

-----------------------------------------------------------------------------
\* The actions.

\* resolveToSymbol is called: getWorkingReader runs to its first await, then
\* the locator loop calls the first locator.
StartRequest(s) ==
    /\ req[s].pcm = "idle" /\ req[s].pcr = "idle"
    /\ LET t == GetWorkingReader(firstWorkingReader) IN
       /\ req' = [req EXCEPT ![s] =
              [Idle EXCEPT
                 !.pcr = t.pcr, !.rdr = t.rdr, !.readerRequest = t.ret,
                 !.startCache = firstWorkingReader,
                 !.pcm = IF NumLocators = 0 THEN "done" ELSE "locating",
                 !.li = IF NumLocators = 0 THEN 0 ELSE 1,
                 !.result = IF NumLocators = 0
                            THEN Thrown(MsgNoCodeObjects, <<>>, <<>>) ELSE NoResult]]
       /\ firstWorkingReader' = t.cache
    /\ UNCHANGED <<lastProbe, invocation>>

\* An awaited isWorking answers.
ProbeDone(s) ==
    /\ req[s].pcr \in {"scan", "recheck"}
    /\ \E working \in ProbeOutcomes :
         LET r == req[s].rdr
             t == IF req[s].pcr = "scan"
                  THEN ScanStep(r, working, firstWorkingReader)
                  ELSE RecheckStep(r, working, firstWorkingReader)
             seen == [lastProbe EXCEPT ![r] = IF working THEN "working" ELSE "broken"]
         IN /\ req' = [req EXCEPT ![s] =
                   [@ EXCEPT !.pcr = t.pcr, !.rdr = t.rdr, !.readerRequest = t.ret,
                             !.probes = Append(@, [reader |-> r, working |-> working]),
                             !.returnedBroken =
                                 /\ t.pcr = "done"
                                 /\ t.ret # NoReader
                                 /\ seen[t.ret] = "broken"]]
            /\ firstWorkingReader' = t.cache
            /\ lastProbe' = seen
    /\ UNCHANGED invocation

\* An awaited findObjectUris answers.
LocatorDone(s) ==
    /\ req[s].pcm = "locating"
    /\ \E o \in LocatorOutcomes(req[s].li) :
         LET j == req[s].li
             t == LocatorStep(j, o, req[s].located)
             calls == Append(req[s].locCalls, [locator |-> j, outcome |-> o])
         IN req' = [req EXCEPT ![s] =
               IF t.next # 0
               THEN [@ EXCEPT !.li = t.next, !.located = t.located, !.locCalls = calls]
               ELSE IF NoCodeObjects(t.located)
               THEN [@ EXCEPT !.pcm = "done", !.li = 0, !.located = t.located,
                              !.locCalls = calls,
                              !.result = Thrown(MsgNoCodeObjects, <<>>, <<>>)]
               ELSE [@ EXCEPT !.pcm = "awaitReader", !.li = 0, !.located = t.located,
                              !.locCalls = calls]]
    /\ UNCHANGED <<firstWorkingReader, lastProbe, invocation>>

\* const reader = await readerRequest, once getWorkingReader has returned.
AwaitReader(s) ==
    /\ req[s].pcm = "awaitReader"
    /\ req[s].pcr = "done"
    /\ LET reader == req[s].readerRequest IN
       req' = [req EXCEPT ![s] =
           IF NoWorkingReader(reader)
           THEN [@ EXCEPT !.pcm = "done", !.reader = reader,
                          !.result = Thrown(MsgNoReaders, ReaderNames, <<>>)]
           ELSE IF Len(req[s].located) = 0
           THEN [@ EXCEPT !.pcm = "done", !.reader = reader,
                          !.result = AfterCandidates(@.resolved, @.errors)]
           ELSE [@ EXCEPT !.pcm = "resolving", !.reader = reader, !.ci = 1]]
    /\ UNCHANGED <<firstWorkingReader, lastProbe, invocation>>

\* An awaited resolveToSymbolInObject answers.
ResolveDone(s) ==
    /\ req[s].pcm = "resolving"
    /\ LET k == req[s].ci
           c == Candidate(req[s].located, k)
           r == CandidateReader(req[s].reader, k)
       IN \E o \in ReaderOutcomes(r, c) :
            LET t == ResolveStep(k, o, req[s].located, req[s].resolved, req[s].errors)
                calls == Append(req[s].resCalls,
                                [reader |-> r, codeObject |-> c, outcome |-> o])
            IN req' = [req EXCEPT ![s] =
                  IF t.next # 0
                  THEN [@ EXCEPT !.ci = t.next, !.resolved = t.resolved,
                                 !.errors = t.errors, !.resCalls = calls]
                  ELSE [@ EXCEPT !.pcm = "done", !.ci = 0, !.resolved = t.resolved,
                                 !.errors = t.errors, !.resCalls = calls,
                                 !.result = AfterCandidates(t.resolved, t.errors)]]
    /\ UNCHANGED <<firstWorkingReader, lastProbe, invocation>>

\* The caller has the outcome and both tasks have ended: the request is over.
EndRequest(s) ==
    /\ req[s].pcm = "done" /\ req[s].pcr = "done"
    /\ req' = [req EXCEPT ![s] = Idle]
    /\ UNCHANGED <<firstWorkingReader, lastProbe, invocation>>

Next ==
    \/ \E s \in Slots : StartRequest(s)
    \/ \E s \in Slots : ProbeDone(s)
    \/ \E s \in Slots : LocatorDone(s)
    \/ \E s \in Slots : AwaitReader(s)
    \/ \E s \in Slots : ResolveDone(s)
    \/ \E s \in Slots : EndRequest(s)

\* One Symbolizer whose requests do not overlap.
Init ==
    /\ req = [s \in 1..1 |-> Idle]
    /\ firstWorkingReader = NoReader
    /\ lastProbe = [r \in Readers |-> "none"]
    /\ invocation = NoInvocation

Spec == Init /\ [][Next]_vars

\* One Symbolizer with up to MaxInFlight requests in flight at once.
InitConcurrent ==
    /\ req = [s \in 1..MaxInFlight |-> Idle]
    /\ firstWorkingReader = NoReader
    /\ lastProbe = [r \in Readers |-> "none"]
    /\ invocation = NoInvocation

SpecConcurrent == InitConcurrent /\ [][Next]_vars

\* Requests that do not overlap, every awaited external call settling: the
\* continuation of a settled await is run by the event loop.
SpecFair ==
    /\ Init /\ [][Next]_vars
    /\ WF_vars(ProbeDone(1))
    /\ WF_vars(LocatorDone(1))
    /\ WF_vars(AwaitReader(1))
    /\ WF_vars(ResolveDone(1))

-----------------------------------------------------------------------------
\* The terminal link provider: AddressLinkProvider of extension.ts.

\* Strings are sequences of one-character strings.
LowerHex == <<"0", "1", "2", "3", "4", "5", "6", "7", "8", "9", "a", "b", "c", "d", "e", "f">>
UpperHex == <<"0", "1", "2", "3", "4", "5", "6", "7", "8", "9", "A", "B", "C", "D", "E", "F">>

IsHexDigit(ch) == \E v \in 1..16 : ch = LowerHex[v] \/ ch = UpperHex[v]

HexValue(ch) == (CHOOSE v \in 1..16 : ch = LowerHex[v] \/ ch = UpperHex[v]) - 1

IsWhitespace(ch) == ch \in {" ", "\t", "\n"}

\* Numbers from LargeNumber on are all kept as LargeNumber: they are above
\* every number the program compares an address with.
LargeNumber == 2^28

\* NaN, which is no number: arithmetic on it gives NaN and every comparison
\* with it is false.
NaN == 0 - 2^30

\* The number the digits of str stand for in base radix.
RECURSIVE RadixNumber(_, _)
RadixNumber(str, radix) ==
    IF str = <<>> THEN 0
    ELSE LET high == RadixNumber(SubSeq(str, 1, Len(str) - 1), radix) IN
         IF high >= LargeNumber \div radix THEN LargeNumber
         ELSE radix * high + HexValue(str[Len(str)])

\* The number the hexadecimal digits of str stand for.
HexNumber(str) == RadixNumber(str, 16)

IsDecimalDigit(ch) == \E v \in 1..10 : ch = LowerHex[v]

\* The longest run of hexadecimal (hex) or decimal digits str starts with.
DigitsPrefix(str, hex) ==
    LET IsDigit(ch) == IF hex THEN IsHexDigit(ch) ELSE IsDecimalDigit(ch)
        n == CHOOSE k \in 0..Len(str) :
                 /\ \A i \in 1..k : IsDigit(str[i])
                 /\ k = Len(str) \/ ~IsDigit(str[k + 1])
    IN  SubSeq(str, 1, n)

RECURSIVE TrimStart(_)
TrimStart(str) ==
    IF str # <<>> /\ IsWhitespace(str[1]) THEN TrimStart(Tail(str)) ELSE str

\* Number.parseInt without a radix: leading whitespace is skipped, a sign is
\* read, 0x or 0X selects base 16, the digits that follow are read up to the
\* first character that is none, and NaN is the result when there is none.
ParseInt(str) ==
    LET s == TrimStart(str)
        signed == s # <<>> /\ s[1] \in {"+", "-"}
        unsigned == IF signed THEN Tail(s) ELSE s
        hex == Len(unsigned) >= 2 /\ unsigned[1] = "0" /\ unsigned[2] \in {"x", "X"}
        digits == DigitsPrefix(IF hex THEN SubSeq(unsigned, 3, Len(unsigned)) ELSE unsigned, hex)
        magnitude == RadixNumber(digits, IF hex THEN 16 ELSE 10)
    IN  IF digits = <<>> THEN NaN
        ELSE IF signed /\ s[1] = "-" THEN 0 - magnitude ELSE magnitude

\* 0x3800000, the start of user space.
UserSpaceStart == 58720256

\* Mutant: every matched address counts as a user-space address.
IsAddressInUserSpaceAlways(match) == TRUE

\* #isAddressInUserSpace
IsAddressInUserSpace(match) ==
    LET number == ParseInt(match) IN number # NaN /\ number >= UserSpaceStart

\* The matches of /(?<=^\s+)0x[0-9a-fA-F]+$/g in line, each [index, text]:
\* the text from index on is 0x and hexadecimal digits up to the end of the
\* line, and all of the line before it is whitespace, at least one character.
LineMatches(line) ==
    {[index |-> p, text |-> SubSeq(line, p + 1, Len(line))] : p \in
        {q \in 1..Len(line) :
            /\ \A i \in 1..q : IsWhitespace(line[i])
            /\ Len(line) >= q + 3
            /\ line[q + 1] = "0" /\ line[q + 2] = "x"
            /\ \A i \in (q + 3)..Len(line) : IsHexDigit(line[i])}}

\* new AddressLink(match)
AddressLink(match) ==
    [startIndex |-> match.index, length |-> Len(match.text), address |-> match.text]

\* provideTerminalLinks: the links for the matches that pass the filter.
TerminalLinks(line) ==
    {AddressLink(m) : m \in {x \in LineMatches(line) : IsAddressInUserSpace(x.text)}}

\* The terminal lines tried: some indentation, 0x or not, some digits, and
\* then the end of the line, a character that is no hexadecimal digit, or one
\* more digit, a letter.
LineDigits == {"0", "3", "8"}

TerminalLines ==
    {indent \o prefix \o digits \o tail :
        indent \in {<<>>, <<" ">>},
        prefix \in {<<>>, <<"0", "x">>},
        digits \in UNION {[1..n -> LineDigits] : n \in 0..MaxDigits},
        tail \in {<<>>, <<"g">>, <<"F">>}}

\* The terminal shows a line and asks for its links.
ProvideTerminalLinks ==
    /\ invocation.op = "link" /\ invocation.pc = "line"
    /\ invocation' = [invocation EXCEPT !.pc = "links",
                                        !.links = TerminalLinks(invocation.line)]
    /\ UNCHANGED <<req, firstWorkingReader, lastProbe>>

\* handleTerminalLink: the user follows a link and its address is resolved.
HandleTerminalLink ==
    /\ invocation.op = "link" /\ invocation.pc = "links"
    /\ \E link \in invocation.links :
         invocation' = [invocation EXCEPT !.pc = "resolving", !.resolving = <<link.address>>]
    /\ UNCHANGED <<req, firstWorkingReader, lastProbe>>

InitLinks ==
    /\ req = [s \in 1..1 |-> Idle]
    /\ firstWorkingReader = NoReader
    /\ lastProbe = [r \in Readers |-> "none"]
    /\ \E line \in TerminalLines :
         invocation = [op |-> "link", pc |-> "line", line |-> line,
                       links |-> {}, resolving |-> <<>>]

NextLinks == ProvideTerminalLinks \/ HandleTerminalLink

\* The terminal link provider on one line of the terminal.
SpecLinks == InitLinks /\ [][NextLinks]_vars

-----------------------------------------------------------------------------
\* The readers taken on their own: GNUBinutilsCodeObjectReader and
\* LLVMCodeObjectReader of readers.ts, each called once with what execFile
\* gives it.

\* execFile resolves, or rejects because the executable could not be spawned
\* or exited with a code other than 0.
ExecExits == {"ok", "spawn failed", "non-zero exit"}

NoOutput == [kind |-> "pending"]

Threw(error) == [kind |-> "threw", error |-> error]

\* String.prototype.lastIndexOf, counting from 0; -1 when ch is not in str.
LastIndexOf(str, ch) ==
    IF \E i \in 1..Len(str) : str[i] = ch
    THEN (CHOOSE i \in 1..Len(str) :
              str[i] = ch /\ \A j \in (i + 1)..Len(str) : str[j] # ch) - 1
    ELSE 0 - 1

\* String.prototype.substring(start, end): both ends are brought into
\* 0..length and swapped when start is the larger.
Substring(str, start, end) ==
    LET Clamp(n) == IF n < 0 THEN 0 ELSE IF n > Len(str) THEN Len(str) ELSE n
        lo == IF Clamp(start) <= Clamp(end) THEN Clamp(start) ELSE Clamp(end)
        hi == IF Clamp(start) <= Clamp(end) THEN Clamp(end) ELSE Clamp(start)
    IN  SubSeq(str, lo + 1, hi)

RECURSIVE TrimEnd(_)
TrimEnd(str) ==
    IF str # <<>> /\ IsWhitespace(str[Len(str)])
    THEN TrimEnd(SubSeq(str, 1, Len(str) - 1)) ELSE str

\* String.prototype.trim
Trim(str) == TrimEnd(TrimStart(str))

\* os.EOL
EOL == "\n"

\* String.prototype.split(EOL): the pieces of str between the line ends.
RECURSIVE Split(_)
Split(str) ==
    IF \E i \in 1..Len(str) : str[i] = EOL
    THEN LET first == CHOOSE i \in 1..Len(str) :
                          str[i] = EOL /\ \A j \in 1..(i - 1) : str[j] # EOL
         IN  <<SubSeq(str, 1, first - 1)>> \o Split(SubSeq(str, first + 1, Len(str)))
    ELSE <<str>>

\* a - b on numbers of which either can be NaN
Subtract(a, b) == IF a = NaN \/ b = NaN THEN NaN ELSE a - b

\* new vscode.Position(line, character) rejects a negative line or character.
PositionIsIllegal(line, character) ==
    \/ line # NaN /\ line < 0
    \/ character # NaN /\ character < 0

\* vscode.Uri.file(path)
FileUri(path) == [scheme |-> "file", path |-> path]

\* Mutant: the line number of the tool is kept as it is.
GNULineOneBased(lineString) == ParseInt(lineString)

\* Number.parseInt(lineString) - 1
GNULine(lineString) == Subtract(ParseInt(lineString), 1)

\* Mutant: no path stands for an unknown location.
IsPlaceholderNever(path) == FALSE

\* path === "??"
IsPlaceholder(path) == path = <<"?", "?">>

\* GNUBinutilsCodeObjectReader.resolveLocation: no location, a location, or
\* the error of the Position constructor.
GNUResolveLocation(locationString) ==
    LET lineNumberSplit == LastIndexOf(locationString, ":")
        path == Substring(locationString, 0, lineNumberSplit)
        lineString == Substring(locationString, lineNumberSplit + 1, Len(locationString))
    IN  IF IsPlaceholder(path) THEN [kind |-> "returned", location |-> <<>>]
        ELSE IF PositionIsIllegal(GNULine(lineString), 0) THEN Threw("illegal argument")
        ELSE [kind |-> "returned",
              location |-> <<[position |-> [line |-> GNULine(lineString), character |-> 0],
                              uri |-> FileUri(path)]>>]

\* GNUBinutilsCodeObjectReader.resolveToSymbolInObject on what execFile gave:
\* the error of execFile, the TypeError of a location line that is not there,
\* the error of resolveLocation, or the symbol.
GNUResolveToSymbol(exec, codeObject) ==
    IF exec.exit # "ok" THEN Threw(exec.exit)
    ELSE LET lines == Split(Trim(exec.stdout))
             symbolName == lines[1]
         IN  IF Len(lines) < 2 THEN Threw("TypeError")
             ELSE LET located == GNUResolveLocation(lines[2]) IN
                  IF located.kind = "threw" THEN located
                  ELSE [kind |-> "returned",
                        symbol |-> [sourceLocation |-> located.location,
                                    symbolName |-> symbolName,
                                    codeObject |-> codeObject]]

\* The outputs of the text tool tried: a line with the name, then a location
\* line made of a path, possibly a colon and what stands for the line number,
\* possibly a further line, possibly a line end after the last line.
TextNames == {<<"f", "o", "o">>, <<"?", "?">>, <<>>}

TextPaths == {<<"/", "s", "r", "c", "/", "x", ".", "c">>, <<"C", ":", "/", "x", ".", "c">>,
              <<"?", "?">>, <<>>}

TextLineNumbers == {<<>>, <<":", "4", "2">>, <<":", "1">>, <<":", "0">>, <<":", "?">>,
                    <<":", "7", " ", "(", "d", ")">>}

TextStdouts ==
    {name \o rest \o end :
        name \in TextNames,
        rest \in {<<>>} \cup
                 {<<EOL>> \o path \o number \o more :
                     path \in TextPaths, number \in TextLineNumbers,
                     more \in {<<>>, <<EOL, "m", "o", "r", "e">>}},
        end \in {<<>>, <<EOL>>}}

\* The code object a reader taken on its own is called with.
ReaderCodeObject == CodeObject(1, 1)

\* One call of resolveToSymbolInObject of the text-tool reader.
GNUResolveToSymbolInObject ==
    /\ invocation.op = "gnu.resolve" /\ invocation.pc = "called"
    /\ invocation' = [invocation EXCEPT
           !.pc = "done",
           !.output = GNUResolveToSymbol(invocation.exec, ReaderCodeObject)]
    /\ UNCHANGED <<req, firstWorkingReader, lastProbe>>

\* What JSON.parse(stdout) gives for the output of the JSON tool: a syntax
\* error, or an array of entries.  An entry has a Symbol array or none (<<>> or
\* <<array>>); a symbol has a FunctionName and a FileName, each a string or
\* not there (<<>> or <<string>>), and a 1-based Line and Column, 0 if unknown.
JSONSymbols ==
    [FunctionName : {<<>>, <<"">>, <<"foo">>},
     FileName : {<<>>, <<"">>, <<"/src/x.c">>},
     Line : {0, 1, 10},
     Column : {0, 1, 3}]

InlinedSymbol == [FunctionName |-> <<"inlined">>, FileName |-> <<"/src/y.h">>, Line |-> 5, Column |-> 7]

JSONEntries ==
    {[Symbol |-> <<>>], [Symbol |-> <<<<>>>>]} \cup
    {[Symbol |-> <<<<symbol>> \o more>>] :
        symbol \in JSONSymbols, more \in {<<>>, <<InlinedSymbol>>}}

OtherEntry == [Symbol |-> <<<<InlinedSymbol>>>>]

JSONDocuments ==
    {[kind |-> "syntax error"], [kind |-> "array", entries |-> <<>>]} \cup
    {[kind |-> "array", entries |-> <<entry>> \o more] :
        entry \in JSONEntries, more \in {<<>>, <<OtherEntry>>}}

\* !value of a string that may not be there: it is not there or it is empty.
IsFalsy(string) == string = <<>> \/ string[1] = ""

\* Mutant: the numbers of the tool are kept as they are.
LLVMPositionOneBased(symbol) == [line |-> symbol.Line, character |-> symbol.Column]

\* symbol.Line - 1, symbol.Column - 1
LLVMPosition(symbol) == [line |-> symbol.Line - 1, character |-> symbol.Column - 1]

\* Mutant: a symbol without a file name is an error, as before version 0.1.3.
LLVMResolveLocationNeedsFile(symbol) ==
    IF IsFalsy(symbol.FileName) THEN Threw("The symbol does not exist")
    ELSE IF PositionIsIllegal(LLVMPosition(symbol).line, LLVMPosition(symbol).character)
         THEN Threw("illegal argument")
    ELSE [kind |-> "returned",
          location |-> <<[uri |-> FileUri(symbol.FileName[1]),
                          position |-> LLVMPosition(symbol)]>>]

\* LLVMCodeObjectReader.resolveLocation: no location, a location, or the
\* error of the Position constructor.
LLVMResolveLocation(symbol) ==
    IF IsFalsy(symbol.FileName) THEN [kind |-> "returned", location |-> <<>>]
    ELSE IF PositionIsIllegal(LLVMPosition(symbol).line, LLVMPosition(symbol).character)
         THEN Threw("illegal argument")
    ELSE [kind |-> "returned",
          location |-> <<[uri |-> FileUri(symbol.FileName[1]),
                          position |-> LLVMPosition(symbol)]>>]

\* Mutant: every output without a usable symbol gives the same error.
LLVMFailureOneMessage(entries) ==
    IF \/ entries = <<>>
       \/ entries[1].Symbol = <<>>
       \/ entries[1].Symbol[1] = <<>>
       \/ IsFalsy(entries[1].Symbol[1][1].FunctionName)
    THEN "The symbol does not exist"
    ELSE "none"

\* The checks of resolveToSymbolInObject on the parsed array, in their order;
\* entry.Symbol[0] of an entry without a Symbol array is a TypeError.
LLVMFailure(entries) ==
    IF entries = <<>> THEN "No symbolizer entry for this address"
    ELSE IF entries[1].Symbol = <<>> THEN "TypeError"
    ELSE IF entries[1].Symbol[1] = <<>> THEN "No symbol data for this address"
    ELSE IF IsFalsy(entries[1].Symbol[1][1].FunctionName) THEN "The symbol does not exist"
    ELSE "none"

\* LLVMCodeObjectReader.resolveToSymbolInObject on what execFile gave: the
\* error of execFile, of JSON.parse, of one of the checks or of
\* resolveLocation, or the symbol.
LLVMResolveToSymbol(exec, codeObject) ==
    IF exec.exit # "ok" THEN Threw(exec.exit)
    ELSE IF exec.stdout.kind = "syntax error" THEN Threw("SyntaxError")
    ELSE IF LLVMFailure(exec.stdout.entries) # "none"
         THEN Threw(LLVMFailure(exec.stdout.entries))
    ELSE LET symbol == exec.stdout.entries[1].Symbol[1][1]
             located == LLVMResolveLocation(symbol)
         IN  IF located.kind = "threw" THEN located
             ELSE [kind |-> "returned",
                   symbol |-> [sourceLocation |-> located.location,
                               symbolName |-> symbol.FunctionName[1],
                               codeObject |-> codeObject]]

\* One call of resolveToSymbolInObject of the JSON reader.
LLVMResolveToSymbolInObject ==
    /\ invocation.op = "llvm.resolve" /\ invocation.pc = "called"
    /\ invocation' = [invocation EXCEPT
           !.pc = "done",
           !.output = LLVMResolveToSymbol(invocation.exec, ReaderCodeObject)]
    /\ UNCHANGED <<req, firstWorkingReader, lastProbe>>

\* Mutant: the rejection of execFile is not caught.
IsWorkingUncaught(exit) ==
    IF exit = "ok" THEN [kind |-> "returned", value |-> TRUE] ELSE Threw(exit)

\* GNUBinutilsCodeObjectReader.isWorking on what execFile --version did.
GNUIsWorkingResult(exit) == [kind |-> "returned", value |-> exit = "ok"]

\* LLVMCodeObjectReader.isWorking on what execFile --version did.
LLVMIsWorkingResult(exit) == [kind |-> "returned", value |-> exit = "ok"]

\* One call of isWorking of the text-tool reader.
GNUIsWorking ==
    /\ invocation.op = "gnu.isWorking" /\ invocation.pc = "called"
    /\ invocation' = [invocation EXCEPT
           !.pc = "done", !.output = GNUIsWorkingResult(invocation.exec.exit)]
    /\ UNCHANGED <<req, firstWorkingReader, lastProbe>>

\* One call of isWorking of the JSON reader.
LLVMIsWorking ==
    /\ invocation.op = "llvm.isWorking" /\ invocation.pc = "called"
    /\ invocation' = [invocation EXCEPT
           !.pc = "done", !.output = LLVMIsWorkingResult(invocation.exec.exit)]
    /\ UNCHANGED <<req, firstWorkingReader, lastProbe>>

\* The calls tried: the operation and what execFile gives it.
ReaderCalls ==
    {[op |-> "gnu.resolve", exec |-> [exit |-> exit, stdout |-> stdout]] :
        exit \in ExecExits, stdout \in TextStdouts} \cup
    {[op |-> "llvm.resolve", exec |-> [exit |-> exit, stdout |-> stdout]] :
        exit \in ExecExits, stdout \in JSONDocuments} \cup
    {[op |-> op, exec |-> [exit |-> exit, stdout |-> <<>>]] :
        op \in {"gnu.isWorking", "llvm.isWorking"}, exit \in ExecExits}

InitReaders ==
    /\ req = [s \in 1..1 |-> Idle]
    /\ firstWorkingReader = NoReader
    /\ lastProbe = [r \in Readers |-> "none"]
    /\ \E c \in ReaderCalls :
         invocation = [op |-> c.op, pc |-> "called", exec |-> c.exec, output |-> NoOutput]

NextReaders ==
    \/ GNUResolveToSymbolInObject
    \/ LLVMResolveToSymbolInObject
    \/ GNUIsWorking
    \/ LLVMIsWorking

\* One call of one reader.
SpecReaders == InitReaders /\ [][NextReaders]_vars

-----------------------------------------------------------------------------
\* The PROS locator taken on its own: PROSCodeObjectLocator of locators/pros.ts,
\* called once on a folder of a file system that does not change meanwhile.

ProjectFolder == "folder"

\* The paths findObjectUris looks at, in its order.
CodeObjectPaths == <<"./bin/hot.package.elf", "./bin/cold.package.elf", "./bin/monolith.elf">>

\* vscode.Uri.joinPath(folder, path)
JoinPath(folder, path) == <<folder, path>>

\* The modification times a file can have.
MTimes == 1..MaxMTime

\* The folders tried: project.pros is there or not, and each of the three
\* paths has no file (<<>>) or a file with a modification time (<<mtime>>).
FileSystems ==
    [projectFile : BOOLEAN,
     files : [DOMAIN CodeObjectPaths -> {<<>>} \cup {<<t>> : t \in MTimes}]]

Pending == [state |-> "pending"]

Settled(value) == [state |-> "settled", value |-> value]

\* isPROSProject(folder), an async function: the call gives a promise, which
\* settles to true when stat finds project.pros and to false when stat throws.
IsPROSProject(fs) == [type |-> "promise", settles |-> fs.projectFile]

\* !value: of a boolean its negation, of an object such as a promise false.
Not(value) == IF value.type = "boolean" THEN ~value.value ELSE FALSE

\* The condition of the if statement: the call of isPROSProject is not awaited.
IsRejectedFolder(fs) == Not(IsPROSProject(fs))

\* Mutant: a file that is not there is taken as a file of modification time 0.
GetCodeObjectOfMissing(fs, i) ==
    <<[uri |-> JoinPath(ProjectFolder, CodeObjectPaths[i]),
       timestamp |-> IF fs.files[i] = <<>> THEN 0 ELSE fs.files[i][1]]>>

\* getCodeObjectAt(uri): the file with its modification time, or undefined
\* when stat throws.
GetCodeObject(fs, i) ==
    IF fs.files[i] = <<>> THEN <<>>
    ELSE <<[uri |-> JoinPath(ProjectFolder, CodeObjectPaths[i]), timestamp |-> fs.files[i][1]]>>

\* .filter((obj) => obj !== undefined)
RECURSIVE FilterDefined(_)
FilterDefined(objects) ==
    IF objects = <<>> THEN <<>>
    ELSE objects[1] \o FilterDefined(Tail(objects))

\* Mutant: b - a.
ComesBeforeDescending(a, b) == b.timestamp - a.timestamp < 0

\* The comparison of the sort: a.timestamp - b.timestamp is negative.
ComesBefore(a, b) == a.timestamp - b.timestamp < 0

\* obj put into the sorted list after every element that does not come after
\* it: the sort keeps the order of elements that compare as equal.
RECURSIVE InsertSorted(_, _)
InsertSorted(sorted, obj) ==
    IF sorted = <<>> THEN <<obj>>
    ELSE IF ComesBefore(obj, sorted[1]) THEN <<obj>> \o sorted
    ELSE <<sorted[1]>> \o InsertSorted(Tail(sorted), obj)

\* Mutant: the list is left in the order of the paths.
SortKeepsOrder(objects) == objects

\* .sort((a, b) => a.timestamp - b.timestamp)
RECURSIVE SortByTimestamp(_)
SortByTimestamp(objects) ==
    IF objects = <<>> THEN <<>>
    ELSE InsertSorted(SortByTimestamp(SubSeq(objects, 1, Len(objects) - 1)),
                      objects[Len(objects)])

\* What findObjectUris returns once every getCodeObjectAt has settled.
ObjectUris(objects) ==
    LET sorted == SortByTimestamp(FilterDefined(objects))
    IN  [i \in DOMAIN sorted |-> sorted[i].uri]

\* findObjectUris up to Promise.all: isPROSProject is called, the if statement
\* is decided, and getCodeObjectAt is called for the three paths.
FindObjectUris ==
    /\ invocation.op = "pros" /\ invocation.pc = "called"
    /\ invocation' =
           IF IsRejectedFolder(invocation.fs)
           THEN [invocation EXCEPT
                    !.pc = "done", !.projectCheck = Pending,
                    !.output = Threw("The specified folder is not a PROS project.")]
           ELSE [invocation EXCEPT !.pc = "stat", !.projectCheck = Pending]
    /\ UNCHANGED <<req, firstWorkingReader, lastProbe>>

\* The promise of isPROSProject settles; nothing waits for it.
IsPROSProjectSettles ==
    /\ invocation.op = "pros" /\ invocation.projectCheck = Pending
    /\ invocation' = [invocation EXCEPT
           !.projectCheck = Settled(IsPROSProject(invocation.fs).settles)]
    /\ UNCHANGED <<req, firstWorkingReader, lastProbe>>

\* One getCodeObjectAt settles.
GetCodeObjectAt ==
    /\ invocation.op = "pros" /\ invocation.pc = "stat"
    /\ \E i \in DOMAIN CodeObjectPaths :
         /\ invocation.objects[i] = Pending
         /\ invocation' = [invocation EXCEPT
                !.objects[i] = Settled(GetCodeObject(invocation.fs, i))]
    /\ UNCHANGED <<req, firstWorkingReader, lastProbe>>

\* Promise.all has settled: the files found are filtered, sorted and returned.
ReturnObjectUris ==
    /\ invocation.op = "pros" /\ invocation.pc = "stat"
    /\ \A i \in DOMAIN CodeObjectPaths : invocation.objects[i] # Pending
    /\ invocation' = [invocation EXCEPT
           !.pc = "done",
           !.output = [kind |-> "returned",
                       uris |-> ObjectUris([i \in DOMAIN CodeObjectPaths |->
                                               invocation.objects[i].value])]]
    /\ UNCHANGED <<req, firstWorkingReader, lastProbe>>

InitLocator ==
    /\ req = [s \in 1..1 |-> Idle]
    /\ firstWorkingReader = NoReader
    /\ lastProbe = [r \in Readers |-> "none"]
    /\ \E fs \in FileSystems :
         invocation = [op |-> "pros", pc |-> "called", fs |-> fs,
                       projectCheck |-> [state |-> "not called"],
                       objects |-> [i \in DOMAIN CodeObjectPaths |-> Pending],
                       output |-> NoOutput]

NextLocator ==
    \/ FindObjectUris
    \/ IsPROSProjectSettles
    \/ GetCodeObjectAt
    \/ ReturnObjectUris

\* One call of findObjectUris of the PROS locator.
SpecLocator == InitLocator /\ [][NextLocator]_vars

-----------------------------------------------------------------------------
\* The makefile auto-fix: canAutoFixVEXCodeDebugInfo and
\* autoFixVEXCodeDebugInfo of the Symbolizer, on a makefile that nothing else
\* writes.  The makefile is held as its text.

\* "# VEXcode makefile"
VEXcodeHeader ==
    <<"#", " ", "V", "E", "X", "c", "o", "d", "e", " ", "m", "a", "k", "e",
      "f", "i", "l", "e">>

\* #vexCodeAutoFixDebugInfoInsertionPoint, "include vex/mkenv.mk"
InsertionPoint ==
    <<"i", "n", "c", "l", "u", "d", "e", " ", "v", "e", "x", "/", "m", "k",
      "e", "n", "v", ".", "m", "k">>

\* " -g"
DebugFlag == <<" ", "-", "g">>

\* What autoFixVEXCodeDebugInfo puts in the place of the insertion point.
InsertionPointWithFlags ==
    <<"i", "n", "c", "l", "u", "d", "e", " ", "v", "e", "x", "/", "m", "k",
      "e", "n", "v", ".", "m", "k", "\n", "\n", "#", " ", "e", "n", "a",
      "b", "l", "e", " ", "d", "e", "b", "u", "g", " ", "m", "e", "t", "a",
      "d", "a", "t", "a", "\n", "C", "F", "L", "A", "G", "S", " ", "+",
      "=", " ", "-", "g", "\n", "C", "X", "X", "_", "F", "L", "A", "G",
      "S", " ", "+", "=", " ", "-", "g">>

\* String.prototype.startsWith
StartsWith(str, prefix) ==
    Len(str) >= Len(prefix) /\ SubSeq(str, 1, Len(prefix)) = prefix

\* The places, counted from 0, at which sub occurs in str.
Occurrences(str, sub) ==
    {i \in 0..(Len(str) - Len(sub)) : SubSeq(str, i + 1, i + Len(sub)) = sub}

\* String.prototype.includes
Includes(str, sub) == Occurrences(str, sub) # {}

\* String.prototype.replace with a string as the pattern: the first occurrence
\* is replaced, none of the others.
ReplaceFirst(str, pattern, replacement) ==
    IF ~Includes(str, pattern) THEN str
    ELSE LET first == CHOOSE i \in Occurrences(str, pattern) :
                          \A j \in Occurrences(str, pattern) : i <= j
         IN  SubSeq(str, 1, first) \o replacement
                 \o SubSeq(str, first + Len(pattern) + 1, Len(str))

\* Mutant: a makefile that has the flag already can be fixed again.
CanAutoFixIgnoresFlag(makefile) ==
    /\ StartsWith(makefile, VEXcodeHeader)
    /\ Includes(makefile, InsertionPoint)

\* The three checks of canAutoFixVEXCodeDebugInfo on the text of the makefile.
IsFixable(makefile) ==
    /\ StartsWith(makefile, VEXcodeHeader)
    /\ Includes(makefile, InsertionPoint)
    /\ ~Includes(makefile, DebugFlag)

\* canAutoFixVEXCodeDebugInfo(projectDir): file is <<>> when there is no
\* makefile, and then readFile throws and the answer is false.
CanAutoFix(file) == file # <<>> /\ IsFixable(file[1])

\* makefile.replace(insertion point, insertion point and flags)
Patched(makefile) == ReplaceFirst(makefile, InsertionPoint, InsertionPointWithFlags)

\* The makefiles tried: up to MaxPieces pieces one after the other.
MakefilePieces == {VEXcodeHeader, InsertionPoint, <<" ", "-">>, <<"g">>, <<"\n">>}

RECURSIVE Concat(_)
Concat(pieces) == IF pieces = <<>> THEN <<>> ELSE pieces[1] \o Concat(Tail(pieces))

Makefiles == {Concat(pieces) : pieces \in UNION {[1..n -> MakefilePieces] : n \in 0..MaxPieces}}

\* canAutoFixVEXCodeDebugInfo is asked about the makefile as it is.
AskCanAutoFix ==
    /\ invocation.op = "autofix" /\ invocation.pc = "idle"
    /\ invocation' = [invocation EXCEPT
           !.lastAnswer = <<[runs |-> Len(invocation.runs),
                             answer |-> CanAutoFix(invocation.file)]>>]
    /\ UNCHANGED <<req, firstWorkingReader, lastProbe>>

\* autoFixVEXCodeDebugInfo up to writeFile: the makefile is read, which throws
\* when there is none; a makefile that cannot be fixed ends the call.
AutoFixRead ==
    /\ invocation.op = "autofix" /\ invocation.pc = "idle"
    /\ Len(invocation.runs) < MaxRuns
    /\ invocation' =
           IF invocation.file = <<>>
           THEN [invocation EXCEPT !.runs = Append(@, [outcome |-> "threw",
                                                    before |-> invocation.file,
                                                    after |-> invocation.file])]
           ELSE IF ~IsFixable(invocation.file[1])
           THEN [invocation EXCEPT !.runs = Append(@, [outcome |-> "refused",
                                                    before |-> invocation.file,
                                                    after |-> invocation.file])]
           ELSE [invocation EXCEPT !.pc = "write",
                                   !.makefile = Patched(invocation.file[1])]
    /\ UNCHANGED <<req, firstWorkingReader, lastProbe>>

\* writeFile and the rest of autoFixVEXCodeDebugInfo: the patched text is
\* written, or writeFile throws; the clean command and the message follow.
AutoFixWrite ==
    /\ invocation.op = "autofix" /\ invocation.pc = "write"
    /\ \E written \in BOOLEAN :
         invocation' =
             IF written
             THEN [invocation EXCEPT
                      !.pc = "idle",
                      !.file = <<invocation.makefile>>,
                      !.runs = Append(@, [outcome |-> "fixed",
                                          before |-> invocation.file,
                                          after |-> <<invocation.makefile>>])]
             ELSE [invocation EXCEPT
                      !.pc = "idle",
                      !.runs = Append(@, [outcome |-> "threw",
                                          before |-> invocation.file,
                                          after |-> invocation.file])]
    /\ UNCHANGED <<req, firstWorkingReader, lastProbe>>

InitAutoFix ==
    /\ req = [s \in 1..1 |-> Idle]
    /\ firstWorkingReader = NoReader
    /\ lastProbe = [r \in Readers |-> "none"]
    /\ \E file \in {<<>>} \cup {<<makefile>> : makefile \in Makefiles} :
         invocation = [op |-> "autofix", pc |-> "idle", file |-> file,
                       makefile |-> <<>>, runs |-> <<>>, lastAnswer |-> <<>>]

NextAutoFix ==
    \/ AskCanAutoFix
    \/ AutoFixRead
    \/ AutoFixWrite

\* Calls of the auto-fix on one makefile, one after the other.
SpecAutoFix == InitAutoFix /\ [][NextAutoFix]_vars

-----------------------------------------------------------------------------
\* getWorkingReader taken on its own, called MaxCalls times one after the
\* other, with readers whose isWorking answers true, answers false or throws,
\* and with what it writes to the output log.

\* isWorking of a reader of the CodeObjectReader interface answers or throws.
IsWorkingOutcomes == {"working", "broken", "threw"}

\* A line of the output log and the error it tells of, if any.
LogLine(text, error) == [text |-> text, error |-> error]

\* The error isWorking of reader r threw in call number n.
ProbeError(r, n) == [reader |-> r, call |-> n]

\* What getWorkingReader writes to the log when it is entered.
EntryLog(cached) ==
    IF cached = NoReader
    THEN <<LogLine("Trying to find a working code object reader.", <<>>)>>
    ELSE <<>>

\* Mutant: the catch of the scan writes the error to the log.
ScanLogWithErrors(outcome, error) ==
    IF outcome = "working" THEN <<LogLine("The following reader will be used", <<>>)>>
    ELSE IF outcome = "threw" THEN <<LogLine("isWorking failed", <<error>>)>>
    ELSE <<>>

\* What the scan writes to the log after isWorking has settled: the reader that
\* will be used; the catch block is empty.
ScanLog(outcome, error) ==
    IF outcome = "working" THEN <<LogLine("The following reader will be used", <<>>)>>
    ELSE <<>>

\* What the re-probe writes to the log when the cached reader answered false,
\* and getWorkingReader is entered again with an empty cache.
RecheckLog(outcome) ==
    IF outcome = "broken"
    THEN <<LogLine("The current code reader has stopped working!", <<>>)>> \o EntryLog(NoReader)
    ELSE <<>>

\* getWorkingReader is called.
CallGetWorkingReader ==
    /\ invocation.op = "probe" /\ invocation.pc = "idle"
    /\ invocation.calls < MaxCalls
    /\ LET t == GetWorkingReader(invocation.cache) IN
       invocation' = [invocation EXCEPT
           !.pc = t.pcr, !.rdr = t.rdr, !.cache = t.cache,
           !.calls = @ + 1,
           !.log = @ \o EntryLog(invocation.cache)]
    /\ UNCHANGED <<req, firstWorkingReader, lastProbe>>

\* The awaited isWorking settles.  In the scan an error is caught and the loop
\* goes on as after false; in the re-probe it is the error of getWorkingReader.
IsWorkingSettles ==
    /\ invocation.op = "probe" /\ invocation.pc \in {"scan", "recheck"}
    /\ \E outcome \in IsWorkingOutcomes :
         LET r == invocation.rdr
             error == ProbeError(r, invocation.calls)
             raised == IF outcome = "threw" THEN Append(invocation.raised, error)
                       ELSE invocation.raised
         IN  IF invocation.pc = "recheck" /\ outcome = "threw"
             THEN invocation' = [invocation EXCEPT
                      !.pc = "idle", !.rdr = NoReader, !.raised = raised,
                      !.returns = Append(@, [kind |-> "threw", error |-> <<error>>,
                                             reader |-> NoReader])]
             ELSE LET t == IF invocation.pc = "scan"
                           THEN ScanStep(r, outcome = "working", invocation.cache)
                           ELSE RecheckStep(r, outcome = "working", invocation.cache)
                      lines == IF invocation.pc = "scan"
                               THEN ScanLog(outcome, error) ELSE RecheckLog(outcome)
                  IN  invocation' = [invocation EXCEPT
                          !.pc = IF t.pcr = "done" THEN "idle" ELSE t.pcr,
                          !.rdr = t.rdr, !.cache = t.cache, !.raised = raised,
                          !.log = @ \o lines,
                          !.returns = IF t.pcr = "done"
                                      THEN Append(@, [kind |-> "returned", error |-> <<>>,
                                                      reader |-> t.ret])
                                      ELSE @]
    /\ UNCHANGED <<req, firstWorkingReader, lastProbe>>

InitProbes ==
    /\ req = [s \in 1..1 |-> Idle]
    /\ firstWorkingReader = NoReader
    /\ lastProbe = [r \in Readers |-> "none"]
    /\ invocation = [op |-> "probe", pc |-> "idle", rdr |-> NoReader, cache |-> NoReader,
                     calls |-> 0, log |-> <<>>, raised |-> <<>>, returns |-> <<>>]

NextProbes == CallGetWorkingReader \/ IsWorkingSettles

\* Calls of getWorkingReader, one after the other.
SpecProbes == InitProbes /\ [][NextProbes]_vars

-----------------------------------------------------------------------------
\* jumpToAddress of the Symbolizer, on the outcomes resolveToSymbol can have.

MsgNoWorkspace == "There is no active workspace"

\* The labels of the buttons of the messages.
ENABLE_DEBUG_INFO == "Enable all debug metadata (recommended)"
RUN_AUTOFIX == "Enable debug metadata (auto-fix)"
DOWNLOAD_LLVM == "Download LLVM"
SHOW_PROS_EXTENSION == "Install PROS VS Code extension (recommended)"
INSTALL_PROS_TOOLCHAIN == "Install PROS Toolchain (recommended)"
OPEN_PROS_REPO == "Open purduesigbots/pros"

\* What resolveToSymbol can give jumpToAddress: a symbol with or without a
\* location, or one of its three errors.
ResolveOutcomes ==
    {Returned(ResolvedSymbol(CodeObject(1, 1), hasLocation)) : hasLocation \in BOOLEAN} \cup
    {Thrown(MsgNoCodeObjects, <<>>, <<>>),
     Thrown(MsgNoReaders, ReaderNames, <<>>),
     Thrown(MsgUnresolved, <<>>, <<[reader |-> 1, codeObject |-> CodeObject(1, 1)]>>)}

\* msg.includes(text) for the messages of the errors of a request: the message
\* of the error for no working reader starts with the text that is looked for
\* and goes on with the names of the readers; the others are the text itself.
MessageIncludes(message, text) ==
    \/ message = text
    \/ /\ message = MsgNoReaders
       /\ text = "Cannot find any working code object readers"

\* Mutant: the install options are offered for every failure, both PROS
\* options at once.
ErrorActionsAlwaysInstall(message, hasFolder, fixable, prosInstalled) ==
    <<INSTALL_PROS_TOOLCHAIN, SHOW_PROS_EXTENSION, DOWNLOAD_LLVM>>

\* The buttons of the error message of the catch block.
ErrorActions(message, hasFolder, fixable, prosInstalled) ==
    (IF /\ MessageIncludes(message, "This address could not be resolved to a line")
        /\ hasFolder
        /\ fixable
     THEN <<RUN_AUTOFIX>> ELSE <<>>)
    \o
    (IF MessageIncludes(message, "Cannot find any working code object readers")
     THEN (IF prosInstalled THEN <<INSTALL_PROS_TOOLCHAIN>> ELSE <<SHOW_PROS_EXTENSION>>)
          \o <<DOWNLOAD_LLVM>>
     ELSE <<>>)

\* The buttons of the information message after a symbol was resolved.
InfoActions(symbol, fixable, remote) ==
    (IF symbol.sourceLocation = <<>> /\ fixable THEN <<ENABLE_DEBUG_INFO>> ELSE <<>>)
    \o
    (IF symbol.sourceLocation # <<>> /\ remote THEN <<OPEN_PROS_REPO>> ELSE <<>>)

NoMessage == [kind |-> "none", message |-> "", actions |-> <<>>, prosInstalled |-> FALSE]

\* What the button the user chose does; prosInstalled is whether the PROS
\* extension is there when the button is handled.
ActionEffect(shown, action, prosInstalled) ==
    IF shown.kind = "info"
    THEN (IF action = ENABLE_DEBUG_INFO THEN "autoFixVEXCodeDebugInfo"
          ELSE "openExternal")
    ELSE IF action = RUN_AUTOFIX THEN "autoFixVEXCodeDebugInfo"
    ELSE IF action = DOWNLOAD_LLVM THEN "openExternal"
    ELSE IF action = SHOW_PROS_EXTENSION THEN "workbench.extensions.search"
    ELSE IF prosInstalled THEN "pros.install" ELSE "workbench.extensions.search"

\* jumpToAddress is called: without an active folder it shows the error at
\* once, with one it awaits resolveToSymbol.
JumpToAddress ==
    /\ invocation.op = "jump" /\ invocation.pc \in {"idle", "done"}
    /\ invocation.jumps < MaxRuns
    /\ \E hasFolder, fixable, prosInstalled \in BOOLEAN :
         invocation' =
             IF hasFolder
             THEN [invocation EXCEPT !.pc = "resolving", !.jumps = @ + 1,
                                     !.hasFolder = TRUE, !.outcome = NoResult,
                                     !.shown = NoMessage]
             ELSE [invocation EXCEPT
                      !.pc = "message", !.jumps = @ + 1,
                      !.hasFolder = FALSE, !.outcome = NoResult,
                      !.shown = [kind |-> "error", message |-> MsgNoWorkspace,
                                 actions |-> ErrorActions(MsgNoWorkspace, FALSE,
                                                          fixable, prosInstalled),
                                 prosInstalled |-> prosInstalled]]
    /\ UNCHANGED <<req, firstWorkingReader, lastProbe>>

\* resolveToSymbol settles and the message is shown: the information message
\* with the symbol, or the error message of the catch block.
ResolveToSymbolSettles ==
    /\ invocation.op = "jump" /\ invocation.pc = "resolving"
    /\ \E outcome \in ResolveOutcomes, fixable, prosInstalled, remote \in BOOLEAN :
         invocation' = [invocation EXCEPT
             !.pc = "message",
             !.outcome = outcome,
             !.shown =
                 IF outcome.kind = "ok"
                 THEN [kind |-> "info", message |-> outcome.value[1].symbolName,
                       actions |-> InfoActions(outcome.value[1], fixable, remote),
                       prosInstalled |-> prosInstalled]
                 ELSE [kind |-> "error", message |-> outcome.message,
                       actions |-> ErrorActions(outcome.message, invocation.hasFolder,
                                                fixable, prosInstalled),
                       prosInstalled |-> prosInstalled]]
    /\ UNCHANGED <<req, firstWorkingReader, lastProbe>>

\* The user closes the message or chooses one of its buttons.  After the PROS
\* toolchain was installed jumpToAddress is called again.
UserAnswers ==
    /\ invocation.op = "jump" /\ invocation.pc = "message"
    /\ \/ invocation' = [invocation EXCEPT !.pc = "done",
                                           !.effects = Append(@, "dismissed")]
       \/ \E a \in DOMAIN invocation.shown.actions, prosInstalled \in BOOLEAN :
            LET effect == ActionEffect(invocation.shown, invocation.shown.actions[a],
                                       prosInstalled)
            IN invocation' = [invocation EXCEPT
                   !.pc = IF effect = "pros.install" THEN "idle" ELSE "done",
                   !.effects = Append(@, effect)]
    /\ UNCHANGED <<req, firstWorkingReader, lastProbe>>

InitJump ==
    /\ req = [s \in 1..1 |-> Idle]
    /\ firstWorkingReader = NoReader
    /\ lastProbe = [r \in Readers |-> "none"]
    /\ invocation = [op |-> "jump", pc |-> "idle", jumps |-> 0, hasFolder |-> FALSE,
                     outcome |-> NoResult, shown |-> NoMessage, effects |-> <<>>]

NextJump ==
    \/ JumpToAddress
    \/ ResolveToSymbolSettles
    \/ UserAnswers

\* Calls of jumpToAddress, one after the other.
SpecJump == InitJump /\ [][NextJump]_vars

-----------------------------------------------------------------------------
\* Reading the record of a request.

\* A resolve call that returned a symbol with a source location.
GaveLocation(call) ==
    ~call.outcome.threw /\ call.outcome.symbol[1].sourceLocation # <<>>

\* A resolve call that returned a symbol without a source location.
GaveNoLocation(call) ==
    ~call.outcome.threw /\ call.outcome.symbol[1].sourceLocation = <<>>

\* A locator call that threw or found nothing.
FoundNothing(call) == call.outcome.threw \/ Len(call.outcome.found) = 0

-----------------------------------------------------------------------------
\* C1: with candidates [A, B], when the reader gives a symbol without a location
\* for A, B is resolved as well, and when B gives a symbol with a location the
\* request returns B's symbol: its codeObject is B and it carries B's location.
C1_LocationBeatsPreference ==
    \A s \in Slots :
        (/\ req[s].pcm = "done"
         /\ Len(req[s].located) = 2
         /\ Len(req[s].resCalls) >= 1
         /\ GaveNoLocation(req[s].resCalls[1]))
        => /\ Len(req[s].resCalls) = 2
           /\ req[s].resCalls[2].codeObject = req[s].located[2]
           /\ GaveLocation(req[s].resCalls[2])
              => /\ req[s].result = Returned(req[s].resCalls[2].outcome.symbol[1])
                 /\ req[s].result.value[1].codeObject = req[s].located[2]
                 /\ req[s].result.value[1].sourceLocation
                        = <<[uri |-> req[s].located[2], position |-> 0]>>

\* A finished request over [A, B] where A gave no location and B gave one.
C1_Witness ==
    \E s \in Slots :
        /\ req[s].pcm = "done"
        /\ Len(req[s].located) = 2
        /\ Len(req[s].resCalls) = 2
        /\ GaveNoLocation(req[s].resCalls[1])
        /\ GaveLocation(req[s].resCalls[2])
        /\ req[s].result.kind = "ok"

\* C2: a resolve call that gives a symbol with a source location is the last
\* resolve call of its request (no later candidate is resolved), the request
\* is over with it, and its symbol is what the request returns.
C2_FirstLocationWins ==
    \A s \in Slots :
        \A k \in 1..Len(req[s].resCalls) :
            GaveLocation(req[s].resCalls[k])
            => /\ k = Len(req[s].resCalls)
               /\ req[s].pcm = "done"
               /\ req[s].result = Returned(req[s].resCalls[k].outcome.symbol[1])

\* The first of two candidates gave a location and the second was never resolved.
C2_Witness ==
    \E s \in Slots :
        /\ Len(req[s].located) = 2
        /\ Len(req[s].resCalls) = 1
        /\ GaveLocation(req[s].resCalls[1])
        /\ req[s].pcm = "done"

\* C3, as first stated: when every locator throws or finds nothing, the
\* request fails with "Cannot find any code objects in this project" and no
\* method of any reader is called during it: no resolve call and no health
\* probe (none answered, none under way).
C3_NoReaderInvoked ==
    \A s \in Slots :
        (/\ Len(req[s].locCalls) = NumLocators
         /\ \A k \in 1..NumLocators : FoundNothing(req[s].locCalls[k]))
        => /\ req[s].pcm = "done"
           /\ req[s].result = Thrown(MsgNoCodeObjects, <<>>, <<>>)
           /\ req[s].resCalls = <<>>
           /\ req[s].probes = <<>>
           /\ req[s].pcr \notin {"scan", "recheck"}

\* C3, amended: when every locator throws or finds nothing, the request fails
\* with "Cannot find any code objects in this project", the reader promise is
\* never awaited and no resolve call of any reader is made.
C3_NoResolveWithoutCandidates ==
    \A s \in Slots :
        (/\ Len(req[s].locCalls) = NumLocators
         /\ \A k \in 1..NumLocators : FoundNothing(req[s].locCalls[k]))
        => /\ req[s].pcm = "done"
           /\ req[s].result = Thrown(MsgNoCodeObjects, <<>>, <<>>)
           /\ req[s].reader = NoReader
           /\ req[s].resCalls = <<>>

\* Every locator has thrown or found nothing, the request has failed, and a
\* health probe of a reader has answered during it.
C3_Witness ==
    \E s \in Slots :
        /\ Len(req[s].locCalls) = NumLocators
        /\ \A k \in 1..NumLocators : FoundNothing(req[s].locCalls[k])
        /\ \E k \in 1..NumLocators : req[s].locCalls[k].outcome.threw
        /\ req[s].result.kind = "error"
        /\ Len(req[s].probes) >= 1

\* C4: when a locator has found candidates and every health probe of the
\* request has answered false, the request fails with the no-working-reader
\* message, which names every configured reader in the configured order, and
\* no resolve call is made.
C4_AllReadersNamed ==
    \A s \in Slots :
        (/\ req[s].pcm = "done"
         /\ Len(req[s].located) > 0
         /\ req[s].pcr = "done"
         /\ \A k \in 1..Len(req[s].probes) : ~req[s].probes[k].working)
        => /\ req[s].result.kind = "error"
           /\ req[s].result.message = MsgNoReaders
           /\ DOMAIN req[s].result.names = 1..NumReaders
           /\ \A r \in 1..NumReaders : req[s].result.names[r] = ReaderName(r)
           /\ \A r \in 1..NumReaders : \E k \in 1..Len(req[s].probes) :
                  req[s].probes[k].reader = r
           /\ req[s].resCalls = <<>>

\* Candidates were found, every reader was probed and answered false, and the
\* request has failed.
C4_Witness ==
    \E s \in Slots :
        /\ req[s].pcm = "done"
        /\ Len(req[s].located) > 0
        /\ Len(req[s].probes) >= NumReaders
        /\ \A k \in 1..Len(req[s].probes) : ~req[s].probes[k].working
        /\ req[s].result.message = MsgNoReaders

C6_FirstWorkingReaderCached ==
    \A s \in Slots :
        (req[s].pcr # "idle" /\ req[s].startCache = NoReader)
        => LET n == Len(req[s].probes) IN
           /\ \A k \in 1..n : req[s].probes[k].reader = k
           /\ \A k \in 1..(n - 1) : ~req[s].probes[k].working
           /\ req[s].pcr = "scan"
              => /\ req[s].rdr = n + 1
                 /\ firstWorkingReader = NoReader
                 /\ \A k \in 1..n : ~req[s].probes[k].working
           /\ req[s].pcr = "done"
              => /\ n >= 1
                 /\ IF req[s].probes[n].working
                    THEN /\ req[s].readerRequest = req[s].probes[n].reader
                         /\ firstWorkingReader = req[s].probes[n].reader
                    ELSE /\ n = NumReaders
                         /\ req[s].readerRequest = NoReader
                         /\ firstWorkingReader = NoReader
           /\ req[s].pcr \in {"scan", "done"}

\* From an empty cache the first reader answered true and was returned with
\* no other reader probed.
C6_Witness ==
    \E s \in Slots :
        /\ req[s].startCache = NoReader
        /\ req[s].pcr = "done"
        /\ Len(req[s].probes) = 1
        /\ req[s].probes[1].working
        /\ req[s].readerRequest = 1
        /\ firstWorkingReader = 1

\* C7: the locators are called in the configured order; each call before the
\* latest threw or found nothing; while the latest call threw or found nothing
\* and locators remain, the next one is being called; once a call has found a
\* candidate no later locator is called and the candidate list is exactly
\* what that locator found.
C7_FirstLocatorWins ==
    \A s \in Slots :
        LET n == Len(req[s].locCalls) IN
        /\ \A k \in 1..n : req[s].locCalls[k].locator = k
        /\ \A k \in 1..(n - 1) : FoundNothing(req[s].locCalls[k])
        /\ req[s].pcm = "locating" => req[s].li = n + 1 /\ req[s].located = <<>>
        /\ n >= 1
           => IF FoundNothing(req[s].locCalls[n])
              THEN /\ req[s].located = <<>>
                   /\ n < NumLocators => req[s].pcm = "locating"
                   /\ n = NumLocators => req[s].pcm = "done"
              ELSE /\ req[s].located = req[s].locCalls[n].outcome.found
                   /\ req[s].pcm # "locating"

\* The first locator threw, the second found two candidates, and they are
\* the candidate list.
C7_Witness ==
    \E s \in Slots :
        /\ Len(req[s].locCalls) = 2
        /\ req[s].locCalls[1].outcome.threw
        /\ Len(req[s].locCalls[2].outcome.found) = 2
        /\ req[s].located = req[s].locCalls[2].outcome.found

\* C8: a finished request whose resolve calls all threw has failed with "This
\* address could not be resolved to a line" and carries exactly one error per
\* candidate, in candidate order; a finished request with a resolve call
\* that succeeded has not failed.
C8_AggregateOfAllErrors ==
    \A s \in Slots :
        (req[s].pcm = "done" /\ Len(req[s].resCalls) >= 1)
        => LET n == Len(req[s].resCalls) IN
           IF \A k \in 1..n : req[s].resCalls[k].outcome.threw
           THEN /\ req[s].result.kind = "error"
                /\ req[s].result.message = MsgUnresolved
                /\ n = Len(req[s].located)
                /\ Len(req[s].result.errors) = Len(req[s].located)
                /\ \A k \in 1..n :
                      /\ req[s].result.errors[k] = req[s].resCalls[k].outcome.error
                      /\ req[s].result.errors[k].codeObject = req[s].located[k]
           ELSE req[s].result.kind = "ok"

\* Two candidates, both resolve calls threw, and the request has failed.
C8_Witness ==
    \E s \in Slots :
        /\ req[s].pcm = "done"
        /\ Len(req[s].located) = 2
        /\ Len(req[s].resCalls) = 2
        /\ \A k \in 1..2 : req[s].resCalls[k].outcome.threw
        /\ req[s].result.kind = "error"

\* C9: a finished request in which some candidate gave a symbol without a
\* location and none gave one with a location returns a symbol without a
\* location, whatever the candidates after it did; and a request returns a
\* symbol without a location only if no resolve call it made gave a location.
C9_FallbackNeverDiscarded ==
    \A s \in Slots :
        (req[s].pcm = "done" /\ Len(req[s].resCalls) >= 1)
        => LET n == Len(req[s].resCalls) IN
           /\ (/\ \E k \in 1..n : GaveNoLocation(req[s].resCalls[k])
               /\ \A k \in 1..n : ~GaveLocation(req[s].resCalls[k]))
              => /\ req[s].result.kind = "ok"
                 /\ req[s].result.value[1].sourceLocation = <<>>
                 /\ \E k \in 1..n :
                       /\ GaveNoLocation(req[s].resCalls[k])
                       /\ req[s].result.value[1] = req[s].resCalls[k].outcome.symbol[1]
           /\ (req[s].result.kind = "ok" /\ req[s].result.value[1].sourceLocation = <<>>)
              => \A k \in 1..n : ~GaveLocation(req[s].resCalls[k])

\* The first candidate gave a symbol without a location, the second threw,
\* and the request returned the first one's symbol.
C9_Witness ==
    \E s \in Slots :
        /\ req[s].pcm = "done"
        /\ Len(req[s].resCalls) = 2
        /\ GaveNoLocation(req[s].resCalls[1])
        /\ req[s].resCalls[2].outcome.threw
        /\ req[s].result = Returned(req[s].resCalls[1].outcome.symbol[1])

\* C10: under any interleaving of overlapping requests, getWorkingReader never
\* returns a reader whose latest completed health probe answered false, and
\* once no getWorkingReader is under way the cache holds no such reader.
C10_CacheSafeUnderOverlap ==
    /\ \A s \in Slots : ~req[s].returnedBroken
    /\ (\A s \in Slots : req[s].pcr \in {"idle", "done"})
       => \/ firstWorkingReader = NoReader
          \/ lastProbe[firstWorkingReader] # "broken"

\* C11, as first stated: when the resolve call of the selected reader throws
\* for a candidate, that candidate is also resolved with another configured
\* reader, unless every other reader was probed in the request and answered
\* false.
C11_ReaderFallbackPerObject ==
    \A s \in Slots :
        req[s].pcm = "done"
        => \A k \in 1..Len(req[s].resCalls) :
              req[s].resCalls[k].outcome.threw
              => \/ \E j \in 1..Len(req[s].resCalls) :
                       /\ req[s].resCalls[j].codeObject = req[s].resCalls[k].codeObject
                       /\ req[s].resCalls[j].reader # req[s].resCalls[k].reader
                 \/ \A r \in Readers \ {req[s].resCalls[k].reader} :
                       \E i \in 1..Len(req[s].probes) :
                          /\ req[s].probes[i].reader = r
                          /\ ~req[s].probes[i].working

\* C11, amended: every resolve call of a request is made with one reader, the
\* one getWorkingReader returned to it; the k-th call is for the k-th
\* candidate, so a candidate whose call threw is not resolved again and the
\* next candidate is tried with the same reader.
C11_OneReaderPerRequest ==
    \A s \in Slots :
        \A k \in 1..Len(req[s].resCalls) :
            /\ req[s].reader # NoReader
            /\ req[s].resCalls[k].reader = req[s].reader
            /\ req[s].resCalls[k].reader = req[s].readerRequest
            /\ req[s].resCalls[k].codeObject = req[s].located[k]

\* The first reader was selected with the second never probed, its call for
\* the first candidate threw, and the second candidate was resolved with it.
C11_Witness ==
    \E s \in Slots :
        /\ req[s].pcm = "done"
        /\ Len(req[s].resCalls) = 2
        /\ req[s].resCalls[1].outcome.threw
        /\ req[s].resCalls[1].reader = 1
        /\ req[s].resCalls[2].reader = 1
        /\ \A i \in 1..Len(req[s].probes) : req[s].probes[i].reader = 1

\* C12: the terminal link provider produces a link only for a matched
\* hexadecimal address whose value is at least 0x3800000, and every such match
\* gets its link; so an address a link hands to the resolution has a value of
\* at least 0x3800000.
C12_OnlyUserSpaceLinked ==
    invocation.op = "link"
    => /\ invocation.pc # "line"
          => /\ \A link \in invocation.links :
                   /\ HexNumber(SubSeq(link.address, 3, Len(link.address))) >= 58720256
                   /\ link.address = SubSeq(invocation.line, link.startIndex + 1,
                                            Len(invocation.line))
                   /\ link.address[1] = "0" /\ link.address[2] = "x"
             /\ \A p \in 1..Len(invocation.line) :
                   LET text == SubSeq(invocation.line, p + 1, Len(invocation.line)) IN
                   (/\ [index |-> p, text |-> text] \in LineMatches(invocation.line)
                    /\ HexNumber(SubSeq(text, 3, Len(text))) < 58720256)
                   => \A link \in invocation.links : link.address # text
       /\ \A k \in 1..Len(invocation.resolving) :
             /\ HexNumber(SubSeq(invocation.resolving[k], 3,
                                 Len(invocation.resolving[k]))) >= 58720256
             /\ \E link \in invocation.links : link.address = invocation.resolving[k]

\* The line " 0x3800000" gave a link and its address is being resolved.
C12_Witness ==
    /\ invocation.op = "link"
    /\ invocation.line = <<" ", "0", "x", "3", "8", "0", "0", "0", "0", "0">>
    /\ invocation.resolving = <<SubSeq(invocation.line, 2, 10)>>

\* The line " 0x308000F" matched the pattern and gave no link.
C12_WitnessBelow ==
    /\ invocation.op = "link"
    /\ invocation.pc = "links"
    /\ invocation.line = <<" ", "0", "x", "3", "0", "8", "0", "0", "0", "F">>
    /\ LineMatches(invocation.line) # {}
    /\ invocation.links = {}

\* The text tool ran and printed name, a line end and location, possibly
\* followed by a line end, and the reader was called on that and has answered.
TextToolPrinted(name, location) ==
    /\ invocation.op = "gnu.resolve"
    /\ invocation.pc = "done"
    /\ invocation.exec.exit = "ok"
    /\ invocation.exec.stdout \in {name \o <<"\n">> \o location,
                                   name \o <<"\n">> \o location \o <<"\n">>}

\* C13: from the two lines name and path:line, with a name that is not empty
\* and a line number of 1 or more, the text-tool reader gives the symbol name,
\* the file path before the last colon, the line number less 1 and column 0.
C13_TextOutputParsed ==
    \A name \in {<<"f", "o", "o">>, <<"?", "?">>} :
    \A path \in {<<"/", "s", "r", "c", "/", "x", ".", "c">>, <<"C", ":", "/", "x", ".", "c">>, <<>>} :
    \A number \in {[text |-> <<"4", "2">>, line |-> 41], [text |-> <<"1">>, line |-> 0]} :
        TextToolPrinted(name, path \o <<":">> \o number.text)
        => /\ invocation.output.kind = "returned"
           /\ invocation.output.symbol.symbolName = name
           /\ invocation.output.symbol.codeObject = ReaderCodeObject
           /\ Len(invocation.output.symbol.sourceLocation) = 1
           /\ invocation.output.symbol.sourceLocation[1].uri.path = path
           /\ invocation.output.symbol.sourceLocation[1].position.line = number.line
           /\ invocation.output.symbol.sourceLocation[1].position.character = 0

\* The tool printed foo and /src/x.c:42 and the reader gave line 41 of /src/x.c.
C13_Witness ==
    /\ TextToolPrinted(<<"f", "o", "o">>,
                       <<"/", "s", "r", "c", "/", "x", ".", "c", ":", "4", "2">>)
    /\ invocation.output.kind = "returned"
    /\ invocation.output.symbol.sourceLocation[1].position.line = 41

\* C14: when the location line is the placeholder ?? alone, the text-tool
\* reader gives the symbol name and no location.
C14_BarePlaceholderIsAbsent ==
    \A name \in {<<"f", "o", "o">>, <<"?", "?">>} :
        TextToolPrinted(name, <<"?", "?">>)
        => /\ invocation.output.kind = "returned"
           /\ invocation.output.symbol.symbolName = name
           /\ invocation.output.symbol.sourceLocation = <<>>

\* What the text-tool reader does with the placeholder: when the text before
\* the last colon of the location line is ??, as in ??:0 and ??:?, it gives the
\* symbol name and no location; for the location line ?? alone it gives a
\* location with an empty path and the line NaN.
C14_PlaceholderPathIsAbsent ==
    \A name \in {<<"f", "o", "o">>, <<"?", "?">>} :
       /\ \A number \in {<<"0">>, <<"?">>, <<"1">>, <<"4", "2">>} :
              TextToolPrinted(name, <<"?", "?", ":">> \o number)
              => /\ invocation.output.kind = "returned"
                 /\ invocation.output.symbol.symbolName = name
                 /\ invocation.output.symbol.sourceLocation = <<>>
       /\ TextToolPrinted(name, <<"?", "?">>)
              => /\ invocation.output.kind = "returned"
                 /\ invocation.output.symbol.symbolName = name
                 /\ Len(invocation.output.symbol.sourceLocation) = 1
                 /\ invocation.output.symbol.sourceLocation[1].uri.path = <<>>
                 /\ invocation.output.symbol.sourceLocation[1].position.line = NaN

\* The tool printed ?? and ??:0 and the reader gave the name without location.
C14_Witness ==
    /\ TextToolPrinted(<<"?", "?">>, <<"?", "?", ":", "0">>)
    /\ invocation.output.kind = "returned"
    /\ invocation.output.symbol.sourceLocation = <<>>

\* The tool printed foo and ?? alone and the reader gave a location.
C14_WitnessBare ==
    /\ TextToolPrinted(<<"f", "o", "o">>, <<"?", "?">>)
    /\ invocation.output.kind = "returned"
    /\ invocation.output.symbol.sourceLocation # <<>>

\* The JSON tool ran, its output was parsed as an array, and the reader was
\* called on that and has answered.
JSONToolPrintedArray ==
    /\ invocation.op = "llvm.resolve"
    /\ invocation.pc = "done"
    /\ invocation.exec.exit = "ok"
    /\ invocation.exec.stdout.kind = "array"

\* The array has a first entry with a Symbol array that has a first symbol.
HasFirstSymbol ==
    /\ JSONToolPrintedArray
    /\ invocation.exec.stdout.entries # <<>>
    /\ invocation.exec.stdout.entries[1].Symbol # <<>>
    /\ invocation.exec.stdout.entries[1].Symbol[1] # <<>>

FirstSymbol == invocation.exec.stdout.entries[1].Symbol[1][1]

IsNonEmptyString(string) == string # <<>> /\ string[1] # ""

\* C15: when the first symbol of the first entry has a function name, a file
\* name and a Line and Column of 1 or more, the JSON reader gives the function
\* name as the symbol name, the file name as the file, Line less 1 as the line
\* and Column less 1 as the column, whatever symbols and entries follow.
C15_JSONLocationZeroBased ==
    (/\ HasFirstSymbol
     /\ IsNonEmptyString(FirstSymbol.FunctionName)
     /\ IsNonEmptyString(FirstSymbol.FileName)
     /\ FirstSymbol.Line >= 1
     /\ FirstSymbol.Column >= 1)
    => /\ invocation.output.kind = "returned"
       /\ invocation.output.symbol.symbolName = FirstSymbol.FunctionName[1]
       /\ invocation.output.symbol.codeObject = ReaderCodeObject
       /\ Len(invocation.output.symbol.sourceLocation) = 1
       /\ invocation.output.symbol.sourceLocation[1].uri.path = FirstSymbol.FileName[1]
       /\ invocation.output.symbol.sourceLocation[1].position.line + 1 = FirstSymbol.Line
       /\ invocation.output.symbol.sourceLocation[1].position.character + 1 = FirstSymbol.Column

\* foo of /src/x.c at Line 10 and Column 3 was given as line 9 and column 2.
C15_Witness ==
    /\ HasFirstSymbol
    /\ FirstSymbol = [FunctionName |-> <<"foo">>, FileName |-> <<"/src/x.c">>,
                      Line |-> 10, Column |-> 3]
    /\ invocation.output.kind = "returned"
    /\ invocation.output.symbol.sourceLocation[1].position = [line |-> 9, character |-> 2]

\* C16: the JSON reader fails with "No symbolizer entry for this address" when
\* the array has no first entry, else with "No symbol data for this address"
\* when the Symbol array of the first entry is empty, else with "The symbol
\* does not exist" when the first symbol has no or an empty FunctionName.
C16_JSONErrorsInOrder ==
    JSONToolPrintedArray
    => /\ invocation.exec.stdout.entries = <<>>
          => invocation.output = Threw("No symbolizer entry for this address")
       /\ (/\ invocation.exec.stdout.entries # <<>>
           /\ invocation.exec.stdout.entries[1].Symbol = <<<<>>>>)
          => invocation.output = Threw("No symbol data for this address")
       /\ (HasFirstSymbol /\ ~IsNonEmptyString(FirstSymbol.FunctionName))
          => invocation.output = Threw("The symbol does not exist")
       /\ invocation.output.kind = "threw"
          => \/ invocation.exec.stdout.entries = <<>>
             \/ ~HasFirstSymbol
             \/ ~IsNonEmptyString(FirstSymbol.FunctionName)
             \/ invocation.output.error = "illegal argument"

\* An entry with an empty Symbol array, followed by another entry, was
\* answered with "No symbol data for this address".
C16_Witness ==
    /\ JSONToolPrintedArray
    /\ Len(invocation.exec.stdout.entries) = 2
    /\ invocation.exec.stdout.entries[1].Symbol = <<<<>>>>
    /\ invocation.output = Threw("No symbol data for this address")

\* A first symbol with an empty FunctionName and a file name was answered with
\* "The symbol does not exist".
C16_WitnessNoName ==
    /\ HasFirstSymbol
    /\ FirstSymbol.FunctionName = <<"">>
    /\ FirstSymbol.FileName = <<"/src/x.c">>
    /\ invocation.output = Threw("The symbol does not exist")

\* C17: a resolve call that finds a symbol name and no file name succeeds with
\* that name and no location: the JSON reader when the first symbol has a
\* function name and no or an empty FileName, the text-tool reader when the
\* path of the location line is the placeholder of the tool.
C17_NameWithoutFileSucceeds ==
    /\ (/\ HasFirstSymbol
        /\ IsNonEmptyString(FirstSymbol.FunctionName)
        /\ ~IsNonEmptyString(FirstSymbol.FileName))
       => /\ invocation.output.kind = "returned"
          /\ invocation.output.symbol.symbolName = FirstSymbol.FunctionName[1]
          /\ invocation.output.symbol.sourceLocation = <<>>
    /\ \A number \in {<<"0">>, <<"?">>} :
          TextToolPrinted(<<"f", "o", "o">>, <<"?", "?", ":">> \o number)
          => /\ invocation.output.kind = "returned"
             /\ invocation.output.symbol.symbolName = <<"f", "o", "o">>
             /\ invocation.output.symbol.sourceLocation = <<>>

\* The JSON reader gave foo without a location for a symbol with a function
\* name, an empty FileName and Line 0.
C17_Witness ==
    /\ HasFirstSymbol
    /\ FirstSymbol.FunctionName = <<"foo">>
    /\ FirstSymbol.FileName = <<"">>
    /\ FirstSymbol.Line = 0
    /\ invocation.output.kind = "returned"
    /\ invocation.output.symbol.sourceLocation = <<>>

\* C18: isWorking of either reader never throws; it answers true when
\* execFile --version succeeded and false when it failed, whether the
\* executable could not be spawned or exited with a code other than 0.
C18_IsWorkingNeverThrows ==
    (invocation.op \in {"gnu.isWorking", "llvm.isWorking"} /\ invocation.pc = "done")
    => /\ invocation.output.kind = "returned"
       /\ invocation.output.value = (invocation.exec.exit = "ok")

\* The executable of the JSON reader could not be spawned and isWorking
\* answered false.
C18_Witness ==
    /\ invocation.op = "llvm.isWorking"
    /\ invocation.pc = "done"
    /\ invocation.exec.exit = "spawn failed"
    /\ invocation.output = [kind |-> "returned", value |-> FALSE]

\* The text tool exited with a code other than 0 and isWorking answered false.
C18_WitnessExitCode ==
    /\ invocation.op = "gnu.isWorking"
    /\ invocation.pc = "done"
    /\ invocation.exec.exit = "non-zero exit"
    /\ invocation.output = [kind |-> "returned", value |-> FALSE]

\* findObjectUris of the PROS locator has ended.
LocatorEnded == invocation.op = "pros" /\ invocation.pc = "done"

\* C19: findObjectUris fails with "The specified folder is not a PROS
\* project." whenever project.pros is not in the folder, and returns a list
\* only when it is.
C19_MissingMarkerFails ==
    LocatorEnded
    => /\ ~invocation.fs.projectFile
          => invocation.output = Threw("The specified folder is not a PROS project.")
       /\ invocation.output.kind = "returned" => invocation.fs.projectFile

\* The modification time of the file a returned uri names.
MTimeOf(uri) ==
    LET i == CHOOSE k \in DOMAIN CodeObjectPaths : uri = <<"folder", CodeObjectPaths[k]>>
    IN  invocation.fs.files[i][1]

\* C20: the list findObjectUris returns has each file that exists among the
\* three paths once, and of any two of them the earlier in the list has a
\* modification time less than or equal to that of the later.
C20_SortedByMTimeAscending ==
    (LocatorEnded /\ invocation.output.kind = "returned")
    => LET uris == invocation.output.uris IN
       /\ \A i \in DOMAIN uris :
             \E k \in DOMAIN CodeObjectPaths :
                /\ uris[i] = <<"folder", CodeObjectPaths[k]>>
                /\ invocation.fs.files[k] # <<>>
       /\ \A k \in DOMAIN CodeObjectPaths :
             invocation.fs.files[k] # <<>>
             => \E i \in DOMAIN uris : uris[i] = <<"folder", CodeObjectPaths[k]>>
       /\ \A i, j \in DOMAIN uris :
             /\ i < j => MTimeOf(uris[i]) <= MTimeOf(uris[j])
             /\ i # j => uris[i] # uris[j]

\* hot, cold and monolith with the modification times 3, 1 and 2 were
\* returned as cold, monolith, hot.
C20_Witness ==
    /\ LocatorEnded
    /\ invocation.fs.files = <<<<3>>, <<1>>, <<2>>>>
    /\ invocation.output.kind = "returned"
    /\ invocation.output.uris = <<<<"folder", "./bin/cold.package.elf">>,
                                  <<"folder", "./bin/monolith.elf">>,
                                  <<"folder", "./bin/hot.package.elf">>>>

\* A folder without project.pros and with one file, cold, gave the list of
\* that file.
C19_ListWithoutMarker ==
    /\ LocatorEnded
    /\ ~invocation.fs.projectFile
    /\ invocation.output.kind = "returned"
    /\ Len(invocation.output.uris) = 1

\* C21: among the files findObjectUris returns, one with the greatest
\* modification time is the first of the list.
C21_NewestFirst ==
    (LocatorEnded /\ invocation.output.kind = "returned")
    => \A i \in DOMAIN invocation.output.uris :
          MTimeOf(invocation.output.uris[1]) >= MTimeOf(invocation.output.uris[i])

\* What the list has instead: one of the greatest modification time is last.
C21_NewestLast ==
    (LocatorEnded /\ invocation.output.kind = "returned")
    => \A i \in DOMAIN invocation.output.uris :
          MTimeOf(invocation.output.uris[Len(invocation.output.uris)])
              >= MTimeOf(invocation.output.uris[i])

\* The number of places at which the debug-flag lines of the auto-fix are in
\* the makefile.
FlagLines(file) ==
    IF file = <<>> THEN 0
    ELSE Cardinality(Occurrences(file[1],
             <<"\n", "C", "F", "L", "A", "G", "S", " ", "+", "=", " ", "-", "g", "\n",
               "C", "X", "X", "_", "F", "L", "A", "G", "S", " ", "+", "=", " ", "-", "g">>))

\* C22: once a call of autoFixVEXCodeDebugInfo has patched the makefile,
\* canAutoFixVEXCodeDebugInfo answers false, every later call of
\* autoFixVEXCodeDebugInfo is refused and leaves the makefile as it is, and
\* the makefile has the debug-flag lines of the one patch and no more.
C22_AutoFixIdempotent ==
    invocation.op = "autofix"
    => \A k \in DOMAIN invocation.runs :
          invocation.runs[k].outcome = "fixed"
          => /\ FlagLines(invocation.runs[k].after) = FlagLines(invocation.runs[k].before) + 1
             /\ invocation.runs[k].after # invocation.runs[k].before
             /\ \A j \in DOMAIN invocation.runs :
                   j > k => /\ invocation.runs[j].outcome = "refused"
                            /\ invocation.runs[j].after = invocation.runs[k].after
             /\ invocation.pc = "idle" => invocation.file = invocation.runs[k].after
             /\ \A a \in DOMAIN invocation.lastAnswer :
                   invocation.lastAnswer[a].runs >= k => ~invocation.lastAnswer[a].answer

\* A makefile was patched, a second call was refused, and then
\* canAutoFixVEXCodeDebugInfo answered false.
C22_Witness ==
    /\ invocation.op = "autofix"
    /\ Len(invocation.runs) = 2
    /\ invocation.runs[1].outcome = "fixed"
    /\ invocation.runs[2].outcome = "refused"
    /\ invocation.lastAnswer = <<[runs |-> 2, answer |-> FALSE]>>

\* C23: every error a reader health probe raised is in a line of the output
\* log or is the error getWorkingReader gave to its caller.
C23_ProbeErrorsRecorded ==
    invocation.op = "probe"
    => \A n \in DOMAIN invocation.raised :
          \/ \E l \in DOMAIN invocation.log :
                invocation.log[l].error = <<invocation.raised[n]>>
          \/ \E k \in DOMAIN invocation.returns :
                invocation.returns[k].error = <<invocation.raised[n]>>

\* What holds instead: the error of a re-probe of the cached reader is given
\* to the caller of getWorkingReader, and an error raised in the scan is in no
\* line of the log.
C23_OnlyReprobeErrorsCarried ==
    invocation.op = "probe"
    => /\ \A k \in DOMAIN invocation.returns :
             invocation.returns[k].kind = "threw"
             => \E n \in DOMAIN invocation.raised :
                   invocation.returns[k].error = <<invocation.raised[n]>>
       /\ \A l \in DOMAIN invocation.log : invocation.log[l].error = <<>>

\* The buttons of the message that is or was shown.
ShownActions == {invocation.shown.actions[a] : a \in DOMAIN invocation.shown.actions}

\* C24: the error message of jumpToAddress offers "Download LLVM" and exactly
\* one PROS option when the request failed for want of a working reader, the
\* installation of the toolchain if the PROS extension is there and that of
\* the extension if not; no other message offers any of the three.
C24_InstallOptionsOnlyWithoutReader ==
    (invocation.op = "jump" /\ invocation.shown.kind # "none")
    => IF invocation.shown.kind = "error" /\ invocation.outcome.message = MsgNoReaders
       THEN ShownActions =
                {"Download LLVM",
                 IF invocation.shown.prosInstalled
                 THEN "Install PROS Toolchain (recommended)"
                 ELSE "Install PROS VS Code extension (recommended)"}
       ELSE ShownActions \cap {"Download LLVM", "Install PROS Toolchain (recommended)",
                               "Install PROS VS Code extension (recommended)"} = {}

\* No reader was working, the PROS extension is not there, and the error
\* message offered its installation and the download of LLVM.
C24_Witness ==
    /\ invocation.op = "jump"
    /\ invocation.pc = "message"
    /\ invocation.outcome.message = MsgNoReaders
    /\ invocation.shown.kind = "error"
    /\ invocation.shown.actions = <<"Install PROS VS Code extension (recommended)",
                                    "Download LLVM">>

\* C25: in a request getWorkingReader has been started when a locator is
\* called; its result is taken only when the list of candidates is not empty;
\* and a reader resolves a candidate only when the list is not empty,
\* getWorkingReader has returned, and the reader is the one it returned.
C25_ReaderAwaitedWhenNeeded ==
    \A s \in Slots :
       /\ (req[s].pcm = "locating" \/ req[s].locCalls # <<>>) => req[s].pcr # "idle"
       /\ (\/ req[s].reader # NoReader
           \/ req[s].pcm = "resolving"
           \/ req[s].result.message = MsgNoReaders)
          => Len(req[s].located) > 0 /\ req[s].pcr = "done"
       /\ (req[s].pcm = "resolving" \/ req[s].resCalls # <<>>)
          => /\ Len(req[s].located) > 0
             /\ req[s].pcr = "done"
             /\ req[s].readerRequest # NoReader
             /\ req[s].reader = req[s].readerRequest
             /\ \A i \in DOMAIN req[s].resCalls :
                   req[s].resCalls[i].reader = req[s].readerRequest

\* The first locator found nothing, the second found candidates while the
\* probes of getWorkingReader were answered, and then a candidate was resolved.
C25_Witness ==
    \E s \in Slots :
       /\ Len(req[s].locCalls) = 2
       /\ Len(req[s].probes) = 2
       /\ req[s].readerRequest = 2
       /\ Len(req[s].resCalls) = 1

\* C26: the candidates given to the reader in a request are, in their order,
\* the first candidates of the list of the locator that found some, none left
\* out and none twice, and a candidate is given to the reader only when the
\* call for the one before it has ended.
C26_CandidatesInLocatorOrder ==
    \A s \in Slots :
       /\ Len(req[s].resCalls) <= Len(req[s].located)
       /\ \A i \in DOMAIN req[s].resCalls :
             req[s].resCalls[i].codeObject = req[s].located[i]
       /\ req[s].located # <<>>
          => req[s].located = req[s].locCalls[Len(req[s].locCalls)].outcome.found
       /\ req[s].pcm = "resolving" => req[s].ci = Len(req[s].resCalls) + 1

\* Two candidates were resolved, the first and then the second of the list.
C26_Witness ==
    \E s \in Slots :
       /\ Len(req[s].located) = 2
       /\ Len(req[s].resCalls) = 2
       /\ req[s].resCalls[1].codeObject = req[s].located[1]
       /\ req[s].resCalls[2].codeObject = req[s].located[2]
       /\ req[s].resCalls[1].codeObject # req[s].resCalls[2].codeObject

\* A reader was called, on the output of its tool, and gave a symbol with a
\* location.
ReaderGaveLocation ==
    /\ invocation.op \in {"gnu.resolve", "llvm.resolve"}
    /\ invocation.pc = "done"
    /\ invocation.output.kind = "returned"
    /\ invocation.output.symbol.sourceLocation # <<>>

\* C27: the location of a symbol a reader returns has a line and a column that
\* are numbers and are not negative.
C27_LocationIsNonNegative ==
    ReaderGaveLocation
    => LET position == invocation.output.symbol.sourceLocation[1].position IN
       /\ position.line # NaN /\ position.line >= 0
       /\ position.character # NaN /\ position.character >= 0

\* What holds instead: no location has a negative line or column, and the
\* locations of the JSON reader have numbers for both.
C27_NeverNegative ==
    ReaderGaveLocation
    => LET position == invocation.output.symbol.sourceLocation[1].position IN
       /\ position.line = NaN \/ position.line >= 0
       /\ position.character # NaN /\ position.character >= 0
       /\ invocation.op = "llvm.resolve" => position.line # NaN

\* The output of the text tool, cut into its lines as the reader does.
TextToolLines == Split(Trim(invocation.exec.stdout))

\* C28: the text-tool reader fails with an error when its tool printed one
\* line only, and when the second line has no colon.
C28_UnparsableOutputFails ==
    (/\ invocation.op = "gnu.resolve"
     /\ invocation.pc = "done"
     /\ invocation.exec.exit = "ok"
     /\ \/ Len(TextToolLines) < 2
        \/ \A i \in DOMAIN TextToolLines[2] : TextToolLines[2][i] # ":")
    => invocation.output.kind = "threw"

\* What holds: the reader fails when there is no second line, and for a second
\* line without a colon it gives a location with an empty path.
C28_OneLineFails ==
    (/\ invocation.op = "gnu.resolve"
     /\ invocation.pc = "done"
     /\ invocation.exec.exit = "ok")
    => /\ Len(TextToolLines) < 2 => invocation.output = Threw("TypeError")
       /\ (/\ Len(TextToolLines) >= 2
           /\ \A i \in DOMAIN TextToolLines[2] : TextToolLines[2][i] # ":")
          => /\ invocation.output.kind = "returned"
             /\ Len(invocation.output.symbol.sourceLocation) = 1
             /\ invocation.output.symbol.sourceLocation[1].uri.path = <<>>

\* C29: the code object of the symbol a request returns is the candidate that
\* was given to the reader in the call that gave this symbol, the last call
\* that did not fail, and it is one of the candidates of the locator that
\* found some.
C29_ResultNamesItsCodeObject ==
    \A s \in Slots :
       req[s].result.kind = "ok"
       => LET symbol == req[s].result.value[1] IN
          /\ \E i \in DOMAIN req[s].resCalls :
                /\ req[s].resCalls[i].outcome.symbol = <<symbol>>
                /\ req[s].resCalls[i].codeObject = symbol.codeObject
                /\ \A j \in DOMAIN req[s].resCalls :
                      j > i => req[s].resCalls[j].outcome.threw
          /\ \E k \in DOMAIN req[s].located : req[s].located[k] = symbol.codeObject
          /\ \E k \in DOMAIN req[s].locCalls[Len(req[s].locCalls)].outcome.found :
                req[s].locCalls[Len(req[s].locCalls)].outcome.found[k] = symbol.codeObject

\* The first candidate failed and the result is the symbol of the second.
C29_Witness ==
    \E s \in Slots :
       /\ req[s].result.kind = "ok"
       /\ Len(req[s].resCalls) = 2
       /\ req[s].resCalls[1].outcome.threw
       /\ req[s].result.value[1].codeObject = req[s].located[2]
       /\ req[s].located[2] # req[s].located[1]

\* findObjectUris has returned a list.
LocatorReturned == LocatorEnded /\ invocation.output.kind = "returned"

\* C30: findObjectUris never throws for a missing file; the list it returns
\* has exactly as many entries as there are files among the three paths,
\* each path with a file is in it, and with no file it is empty.
C30_ExactlyTheExistingFiles ==
    LocatorEnded
    => /\ invocation.output.kind = "returned"
       /\ Len(invocation.output.uris)
             = Cardinality({k \in 1..3 : invocation.fs.files[k] # <<>>})
       /\ \A k \in 1..3 :
             invocation.fs.files[k] # <<>>
             <=> \E i \in DOMAIN invocation.output.uris :
                    invocation.output.uris[i] =
                        <<"folder", <<"./bin/hot.package.elf", "./bin/cold.package.elf",
                                      "./bin/monolith.elf">>[k]>>
       /\ (\A k \in 1..3 : invocation.fs.files[k] = <<>>) => invocation.output.uris = <<>>

\* None of the three files was there and the empty list was returned.
C30_Witness ==
    /\ LocatorReturned
    /\ invocation.fs.files = <<<<>>, <<>>, <<>>>>
    /\ invocation.output.uris = <<>>

\* hot and monolith were there, cold was not, and the two were returned.
C30_WitnessTwo ==
    /\ LocatorReturned
    /\ invocation.fs.files[2] = <<>>
    /\ Len(invocation.output.uris) = 2

\* The calls of the reader in request s that gave a symbol.
SucceededCalls(s) == {i \in DOMAIN req[s].resCalls : ~req[s].resCalls[i].outcome.threw}

\* C31: the symbol a request returns is the one the last of its reader calls
\* that succeeded gave; when the candidates gave symbols without a location
\* only, it is the symbol of the last of them.
C31_LastSuccessReturned ==
    \A s \in Slots :
       req[s].pcm = "done"
       => /\ SucceededCalls(s) # {} <=> req[s].result.kind = "ok"
          /\ req[s].result.kind = "ok"
             => LET last == CHOOSE i \in SucceededCalls(s) :
                                \A j \in SucceededCalls(s) : j <= i
                IN  /\ req[s].result.value = req[s].resCalls[last].outcome.symbol
                    /\ req[s].result.value[1].codeObject = req[s].located[last]

\* Two candidates gave a symbol without a location and the request returned
\* the symbol of the second.
C31_Witness ==
    \E s \in Slots :
       /\ req[s].pcm = "done"
       /\ Len(req[s].resCalls) = 2
       /\ SucceededCalls(s) = {1, 2}
       /\ req[s].resCalls[1].outcome.symbol[1].sourceLocation = <<>>
       /\ req[s].resCalls[2].outcome.symbol[1].sourceLocation = <<>>
       /\ req[s].result.value[1].codeObject = req[s].located[2]
       /\ req[s].located[2] # req[s].located[1]

\* C32: when a request starts with a cached reader and the re-probe of that
\* reader answers true, getWorkingReader makes no other probe, returns the
\* cached reader and leaves the cache as it was, whatever the readers before
\* it in the list would answer.
C32_HealthyCacheIsSticky ==
    \A s \in Slots :
       (/\ req[s].startCache # NoReader
        /\ req[s].probes # <<>>
        /\ req[s].probes[1].working)
       => /\ req[s].probes = <<[reader |-> req[s].startCache, working |-> TRUE]>>
          /\ req[s].pcr = "done"
          /\ req[s].readerRequest = req[s].startCache
          /\ firstWorkingReader = req[s].startCache

\* The second reader was cached after the first had answered false; a later
\* request probed the second reader only and took it.
C32_Witness ==
    \E s \in Slots :
       /\ req[s].startCache = 2
       /\ req[s].probes = <<[reader |-> 2, working |-> TRUE]>>
       /\ req[s].readerRequest = 2
       /\ lastProbe[1] = "broken"

\* C33: when getWorkingReader has returned undefined the cache is empty and
\* every reader of the list was probed in that call; a request that starts
\* with an empty cache probes the list from its first reader on and takes the
\* first reader that answers true.
C33_FailureNotCached ==
    \A s \in Slots :
       /\ (req[s].pcr = "done" /\ req[s].readerRequest = NoReader)
          => /\ firstWorkingReader = NoReader
             /\ \A r \in Readers :
                   \E k \in DOMAIN req[s].probes :
                      req[s].probes[k].reader = r /\ ~req[s].probes[k].working
       /\ (req[s].startCache = NoReader /\ req[s].probes # <<>>)
          => /\ req[s].probes[1].reader = 1
             /\ req[s].probes[Len(req[s].probes)].working
                => /\ req[s].readerRequest = req[s].probes[Len(req[s].probes)].reader
                   /\ firstWorkingReader = req[s].readerRequest

\* The last probe of the second reader, in an earlier request, had answered
\* false and the cache was empty; this request probed the first reader, which
\* answered true, and took it.
C33_Witness ==
    \E s \in Slots :
       /\ req[s].startCache = NoReader
       /\ lastProbe[2] = "broken"
       /\ req[s].probes = <<[reader |-> 1, working |-> TRUE]>>
       /\ req[s].readerRequest = 1
       /\ firstWorkingReader = 1

\* C34: getWorkingReader never fails: every call that has ended has returned
\* a reader or undefined, whatever the health probes raised.
C34_GetWorkingReaderNeverFails ==
    invocation.op = "probe"
    => \A k \in DOMAIN invocation.returns :
          invocation.returns[k].kind = "returned"

\* The calls one request has made: no locator twice, the k-th resolve call for
\* the k-th candidate and no more calls than candidates, at most one re-probe
\* of the cached reader followed by at most one probe of each reader.
C35_CallsBounded ==
    \A s \in Slots :
       /\ Len(req[s].locCalls) <= NumLocators
       /\ \A i, j \in DOMAIN req[s].locCalls :
             i # j => req[s].locCalls[i].locator # req[s].locCalls[j].locator
       /\ Len(req[s].resCalls) <= Len(req[s].located)
       /\ \A k \in DOMAIN req[s].resCalls :
             req[s].resCalls[k].codeObject = req[s].located[k]
       /\ Len(req[s].probes) <= 1 + NumReaders
       /\ LET first == IF req[s].startCache = NoReader THEN 1 ELSE 2 IN
          \A i, j \in DOMAIN req[s].probes :
             (first <= i /\ i < j) => req[s].probes[i].reader # req[s].probes[j].reader

\* C35: every resolve request ends, as does its getWorkingReader, when every
\* awaited call settles; within a request each locator is called at most once,
\* resolve at most once per candidate, and isWorking at most 1 + the number of
\* readers times.
C35_TerminatesWithBoundedCalls ==
    /\ []C35_CallsBounded
    /\ (req[1].pcm # "idle") ~> (req[1].pcm = "done")
    /\ (req[1].pcr # "idle") ~> (req[1].pcr = "done")

\* A request has ended after the re-probe of the cached reader and a probe of
\* every reader, a call of every locator and two resolve calls.
C35_Witness ==
    \E s \in Slots :
       /\ req[s].pcm = "done" /\ req[s].pcr = "done"
       /\ req[s].startCache # NoReader
       /\ Len(req[s].probes) = 1 + NumReaders
       /\ Len(req[s].locCalls) = NumLocators
       /\ Len(req[s].resCalls) >= 2

====
